---------------------------- MODULE Spec2Model ----------------------------
(***************************************************************************)
(* State-machine model of the CIM diagram layout editor: the diagram       *)
(* aggregate (DiagramModel, GluePointModel), the glue point services, and  *)
(* the translation of selected points.                                     *)
(*                                                                         *)
(* The repository holds more than one GluePointService:                    *)
(*   S  src/src/features/gluepoints/GluePointService.ts (toggleConnection, *)
(*      mergeGluePoints, no object validation)                             *)
(*   V  src/unnamed/part_003 (object validation, cascade on removal,       *)
(*      createGluePointFromSelectedPoints)                                 *)
(* Each is modelled by its own actions; SpecS and SpecV are the editor     *)
(* running with the one or the other service registered.                   *)
(***************************************************************************)
EXTENDS Integers, Sequences, FiniteSets, TLC

\* ------------------------------------------------------------------ bounds
NPoints == 4          \* points of the loaded diagram: 1..NPoints
MaxGlueIris == 3      \* glue point IRIs that can ever be allocated (uuid supply)
MaxLoadedGlue == 2    \* glue points of the loaded diagram
MaxIris == 2          \* longest pointIris array handed to createGluePoint
MaxTasks == 1         \* operations that may be suspended at an await at once
MaxFailures == 1      \* executeUpdate calls that fail in one run
MaxOps == 2           \* operations (service calls, arrow-key moves) started in one run
MaxMoves == 1         \* arrow-key moves in one run
GridSize == 2         \* the gridSize store
MaxEdits == 3         \* point insertions and deletions started in one run
MaxEditTasks == 2     \* point insertions and deletions that may be suspended at once
CoordUnit == 12       \* the loaded coordinates are multiples of it
SelectionRadius == 5  \* selectionThreshold * scale^-0.3 at the current zoom
ClickOffset == 3      \* how far beside a point a pointer event may land
SignificandBits == 8  \* significant bits of a number
MaxMirrors == 2       \* mirrorings in one run
MaxOrder == 1         \* largest sequence number and drawing order in the bindings
MaxPresses == 1       \* presses of the temporary-pan key in one run
MaxScheduled == 1     \* callbacks that may wait for the frame when a pointer-up or the wheel asks for one

NObjects == 2         \* diagram objects; point p belongs to object ((p-1) % NObjects)+1

Points == 1..NPoints
GlueIris == 1..MaxGlueIris
NoGlue == 0           \* "null" / "undefined" for a glue point IRI

\* PointModel.parentObject.iri
parentObject(p) == ((p - 1) % NObjects) + 1

\* ------------------------------------------------------------ map helpers
Restrict(f, S) == [k \in S |-> f[k]]
MapSet(f, k, v) == [j \in (DOMAIN f) \cup {k} |-> IF j = k THEN v ELSE f[j]]
MapDelete(f, k) == Restrict(f, (DOMAIN f) \ {k})
EmptyMap == [k \in {} |-> 0]
SeqSet(s) == {s[i] : i \in 1..Len(s)}


\* ------------------------------------------------------- GluePointModel
\* A GluePointModel is its connectedPoints (a Set of point IRIs); its iri is
\* its key in DiagramModel.gluePoints.

\* GluePointModel.addPoint
GP_addPoint(connectedPoints, pointIri) == connectedPoints \cup {pointIri}

\* GluePointModel.removePoint: the new set, and whether fewer than 2 remain
GP_removePoint(connectedPoints, pointIri) ==
  [connectedPoints |-> connectedPoints \ {pointIri},
   shouldDelete    |-> Cardinality(connectedPoints \ {pointIri}) < 2]

\* GluePointModel.hasPoint
GP_hasPoint(connectedPoints, pointIri) == pointIri \in connectedPoints

\* GluePointModel.pointCount
GP_pointCount(connectedPoints) == Cardinality(connectedPoints)

\* ---------------------------------------------------------- DiagramModel
\* A DiagramModel: gluePoints (iri -> connectedPoints), pointToGluePointMap
\* (point -> glue iri), its objects (each the array of its points' iris and
\* isPolygon), points (the flattened array of point iris), and the fields x, y,
\* sequenceNumber and parentObject (parent) of the PointModels.
Objects == 1..NObjects
NullDiagram ==
  [gluePoints |-> EmptyMap, pointToGluePointMap |-> EmptyMap,
   x |-> [p \in Points |-> 0], y |-> [p \in Points |-> 0],
   objects |-> [o \in Objects |-> [points |-> <<>>, isPolygon |-> FALSE]],
   points |-> <<>>,
   sequenceNumber |-> [p \in Points |-> 0],
   parent |-> [p \in Points |-> 0]]

\* DiagramModel.addGluePoint: push the glue point, map each of its points to it
DM_addGluePoint(D, iri, connectedPoints) ==
  [D EXCEPT
     !.gluePoints = MapSet(D.gluePoints, iri, connectedPoints),
     !.pointToGluePointMap =
        [p \in (DOMAIN D.pointToGluePointMap) \cup connectedPoints |->
           IF p \in connectedPoints THEN iri ELSE D.pointToGluePointMap[p]]]

\* DiagramModel.createGluePoint: new GluePointModel(iri, pointIris), then add
DM_createGluePoint(D, pointIris, iri) == DM_addGluePoint(D, iri, SeqSet(pointIris))

\* DiagramModel.removeGluePoint: delete the mapping of every connected point
\* (whatever it maps to), then filter the glue point out
DM_removeGluePoint(D, iri) ==
  IF iri \notin DOMAIN D.gluePoints THEN D
  ELSE [D EXCEPT
          !.pointToGluePointMap =
             Restrict(D.pointToGluePointMap,
                      (DOMAIN D.pointToGluePointMap) \ D.gluePoints[iri]),
          !.gluePoints = MapDelete(D.gluePoints, iri)]

\* DiagramModel.getGluePointForPoint: the glue point's iri, or NoGlue
DM_getGluePointForPoint(D, pointIri) ==
  IF pointIri \notin DOMAIN D.pointToGluePointMap THEN NoGlue
  ELSE IF D.pointToGluePointMap[pointIri] \in DOMAIN D.gluePoints
       THEN D.pointToGluePointMap[pointIri] ELSE NoGlue

\* DiagramModel.getGluedPoints: the connected points except the query point
DM_getGluedPoints(D, pointIri) ==
  IF DM_getGluePointForPoint(D, pointIri) = NoGlue THEN {}
  ELSE D.gluePoints[DM_getGluePointForPoint(D, pointIri)] \ {pointIri}


\* ----------------------------------------------------------------- state
VARIABLES
  diagrams,        \* heap of DiagramModel objects (a reload makes a new one)
  diagramData,     \* the store: which DiagramModel is the current diagram
  uuid,            \* next glue point IRI uuidv4() hands out
  status,          \* last updateStatus message
  tasks,           \* operations suspended at an await, each a stack of frames
  selectedPoints,  \* interactionState.selectedPoints
  selectedGluePoint, \* the selectedGluePoint store of GluePointState
  interactionState, \* interactionState: mode, and where a selection or drag began
  canvas,          \* what canvasInteraction keeps: lastMouseEvent, tempPanData, hover state
  failures,        \* executeUpdate calls that failed so far
  ops,             \* service operations called so far
  last             \* the last event: operation, arguments, pre-state, result

vars == <<diagrams, diagramData, uuid, status, tasks, selectedPoints,
          selectedGluePoint, interactionState, canvas, failures, ops, last>>

\* the slots of suspended operations, and of DiagramModel objects
Tasks == DOMAIN tasks
Heap == DOMAIN diagrams

\* the interaction state while no button is down: InteractionMode.NONE
NoInteraction ==
  [mode |-> "NONE", start |-> [x |-> 0, y |-> 0], current |-> [x |-> 0, y |-> 0],
   altKey |-> FALSE]

\* canvasInteraction before any event: no lastMouseEvent, tempPanData off,
\* no lastHoveredPoint, no hover check scheduled, no animation frame callback
\* requested, no tooltip shown. held is the operator's side of the events the
\* listeners receive: whether a pointer button and the temporary-pan key are
\* down, how often the key has been pressed, the mode it was last pressed in,
\* and whether only key repeats, pointer moves and pointer-ups have arrived since.
\* candidatePoints is the GluePointVisualizer's list of add candidates
NoCanvas ==
  [lastMouseEvent |-> FALSE, candidatePoints |-> {},
   tempPanData |-> [previousMode |-> "NONE", enabled |-> FALSE],
   lastHoveredPoint |-> 0, hoverCheckScheduled |-> FALSE,
   animationFrame |-> <<>>, tooltipPoint |-> 0,
   held |-> [button |-> FALSE, space |-> FALSE, presses |-> 0, mode |-> "NONE",
             clean |-> TRUE]]

\* The program state a synchronous stretch of code reads and writes
Machine == [diagrams |-> diagrams, diagramData |-> diagramData,
            uuid |-> uuid, status |-> status, selectedGluePoint |-> selectedGluePoint,
            interactionState |-> interactionState, canvas |-> canvas]
CurD(M) == M.diagrams[M.diagramData]
SetCurD(M, D) == [M EXCEPT !.diagrams[M.diagramData] = D]
SetStatus(M, msg) == [M EXCEPT !.status = msg]

\* ------------------------------------------------- the update commands
\* What a query built by GluePointQueryBuilder / PointQueryBuilder asks the
\* remote store to do: kind, glue point g, point p, points pts, vector (dx, dy)
NoQuery == [kind |-> "none", g |-> NoGlue, p |-> 0, pts |-> {}, dx |-> 0, dy |-> 0,
            pos |-> EmptyMap, obj |-> 0, seq |-> EmptyMap]
Query(kind, g, p, pts) == [NoQuery EXCEPT !.kind = kind, !.g = g, !.p = p, !.pts = pts]
MoveQuery(pts, dx, dy) == [NoQuery EXCEPT !.kind = "move", !.pts = pts, !.dx = dx, !.dy = dy]

\* ------------------------------------------------------ frames and results
\* A frame is a call suspended at an await: fn the function, pc the await,
\* d the DiagramModel it captured in currentDiagram, q the update it awaits.
Frame(fn, pc, d, q, g, g2, rest, flag) ==
  [fn |-> fn, pc |-> pc, d |-> d, q |-> q, g |-> g, g2 |-> g2, rest |-> rest, flag |-> flag]
\* a call awaiting sparqlService.executeUpdate(query)
UpdateFrame(fn, d, q, g, flag) == Frame(fn, "update", d, q, g, NoGlue, <<>>, flag)

\* What a synchronous stretch ends in: the machine state, the task's stack (empty:
\* the call returned ret), how many updates it issued, and whether it needed
\* a glue IRI beyond the modelled supply
Ret(M, ret) == [M |-> M, frames |-> <<>>, ret |-> ret, issued |-> 0, stuck |-> FALSE]
Suspend(M, frame) == [M |-> M, frames |-> <<frame>>, ret |-> "pending", issued |-> 1, stuck |-> FALSE]
Stuck(M) == [M |-> M, frames |-> <<>>, ret |-> "stuck", issued |-> 0, stuck |-> TRUE]
Under(caller, r) == IF r.frames = <<>> THEN r ELSE [r EXCEPT !.frames = <<caller>> \o @]


\* ------------------------------------- GluePointService, shared by S and V
\* getParentObjectIris: the objects of those of the points the diagram holds
getParentObjectIris(pointIris) == {parentObject(p) : p \in pointIris \cap Points}

\* arePointsFromDifferentObjects
arePointsFromDifferentObjects(pointIris) == Cardinality(getParentObjectIris(pointIris)) >= 2

\* removeGluePoint up to its await (the same text in both services)
removeGluePoint(M, gluePointIri) ==
  IF gluePointIri \notin DOMAIN CurD(M).gluePoints
  THEN Ret(SetStatus(M, "Glue point not found"), "false")
  ELSE Suspend(SetStatus(SetCurD(M, DM_removeGluePoint(CurD(M), gluePointIri)),
                         "Removing glue point..."),
               UpdateFrame("removeGluePoint", M.diagramData,
                           Query("removeGlue", gluePointIri, 0, {}), gluePointIri, FALSE))

\* handleDeleteKeyOnGluePoint from its loop on: rest are the glue points still
\* to be removed, each by removeGluePoint; success is false once one returned false
RECURSIVE V_handleDeleteLoop(_, _, _)
V_handleDeleteLoop(M, rest, success) ==
  IF rest = <<>>
  THEN Ret(M, IF success THEN "true" ELSE "false")
  ELSE LET r == removeGluePoint(M, Head(rest)) IN
       IF r.frames = <<>> THEN V_handleDeleteLoop(r.M, Tail(rest), success /\ r.ret = "true")
       ELSE Under(Frame("handleDeleteKeyOnGluePoint", "loop", 0, NoQuery,
                        NoGlue, NoGlue, Tail(rest), success), r)

\* the glue points the index names for the selected points
GluePointIrisOf(D, selected) ==
  {D.pointToGluePointMap[p] : p \in selected \cap DOMAIN D.pointToGluePointMap}

\* variant: the answer of window.confirm is not read
V_handleDeleteKeyOnGluePoint_NoConfirm(M, selected, gluePointIris, confirmDelete) ==
  IF selected = {} \/ gluePointIris = <<>>
  THEN Ret(M, "false")
  ELSE V_handleDeleteLoop(M, gluePointIris, TRUE)

\* handleDeleteKeyOnGluePoint: gluePointIris (a Set, iterated in the order its
\* members were added) are the glue points of the selected points, confirmDelete
\* is the answer window.confirm returns
V_handleDeleteKeyOnGluePoint(M, selected, gluePointIris, confirmDelete) ==
  IF selected = {} \/ gluePointIris = <<>> \/ ~confirmDelete
  THEN Ret(M, "false")
  ELSE V_handleDeleteLoop(M, gluePointIris, TRUE)

\* The local mutation of addPointToGluePoint: gluePoint.addPoint, map.set
AddPointLocally(M, pointIri, gluePointIri) ==
  SetCurD(M, [CurD(M) EXCEPT
     !.gluePoints[gluePointIri] = GP_addPoint(@, pointIri),
     !.pointToGluePointMap = MapSet(@, pointIri, gluePointIri)])

\* The local mutation of removePointFromGluePoint: gluePoint.removePoint, map.delete
RemovePointLocally(M, pointIri, gluePointIri) ==
  SetCurD(M, [CurD(M) EXCEPT
     !.gluePoints[gluePointIri] = GP_removePoint(@, pointIri).connectedPoints,
     !.pointToGluePointMap = MapDelete(@, pointIri)])

\* -------------------------------- service S (GluePointService.ts), to the await
S_createGluePoint(M, pointIris) ==
  IF Len(pointIris) < 2
  THEN Ret(SetStatus(M, "At least two points are required to create a glue point"), "null")
  ELSE IF M.uuid > MaxGlueIris THEN Stuck(M)
  ELSE Suspend([SetStatus(SetCurD(M, DM_createGluePoint(CurD(M), pointIris, M.uuid)),
                          "Creating glue point...") EXCEPT !.uuid = @ + 1],
               UpdateFrame("createGluePoint", M.diagramData,
                           Query("create", M.uuid, 0, SeqSet(pointIris)), M.uuid, FALSE))

S_addPointToGluePoint(M, pointIri, gluePointIri) ==
  IF gluePointIri \notin DOMAIN CurD(M).gluePoints
  THEN Ret(SetStatus(M, "Glue point not found"), "false")
  ELSE IF GP_hasPoint(CurD(M).gluePoints[gluePointIri], pointIri)
  THEN Ret(SetStatus(M, "Point is already connected to this glue point"), "false")
  ELSE Suspend(SetStatus(AddPointLocally(M, pointIri, gluePointIri),
                         "Adding point to glue point..."),
               UpdateFrame("addPointToGluePoint", M.diagramData,
                           Query("add", gluePointIri, pointIri, {}), gluePointIri, FALSE))

\* flag keeps shouldDeleteGluePoint for the code after the await
S_removePointFromGluePoint(M, pointIri, gluePointIri) ==
  IF gluePointIri \notin DOMAIN CurD(M).gluePoints
  THEN Ret(SetStatus(M, "Glue point not found"), "false")
  ELSE IF ~GP_hasPoint(CurD(M).gluePoints[gluePointIri], pointIri)
  THEN Ret(SetStatus(M, "Point is not connected to this glue point"), "false")
  ELSE Suspend(SetStatus(RemovePointLocally(M, pointIri, gluePointIri),
                         "Removing point from glue point..."),
               UpdateFrame("removePointFromGluePoint", M.diagramData,
                           Query("removePt", gluePointIri, pointIri, {}), gluePointIri,
                           GP_removePoint(CurD(M).gluePoints[gluePointIri], pointIri).shouldDelete))

\* mergeGluePoints from its loop on: rest are the points of gluePoint2 still to
\* be added to gluePoint1, each by addPointToGluePoint (its result ignored),
\* then removeGluePoint(gluePoint2)
RECURSIVE S_mergeLoop(_, _, _, _)
S_mergeLoop(M, gluePoint1Iri, gluePoint2Iri, rest) ==
  IF rest = <<>>
  THEN LET r == removeGluePoint(M, gluePoint2Iri) IN
       IF r.frames = <<>> THEN Ret(SetStatus(r.M, "Glue points merged successfully"), "true")
       ELSE Under(Frame("mergeGluePoints", "afterRemove", 0, NoQuery,
                        gluePoint1Iri, gluePoint2Iri, <<>>, FALSE), r)
  ELSE LET r == S_addPointToGluePoint(M, Head(rest), gluePoint1Iri) IN
       IF r.frames = <<>> THEN S_mergeLoop(r.M, gluePoint1Iri, gluePoint2Iri, Tail(rest))
       ELSE Under(Frame("mergeGluePoints", "loop", 0, NoQuery,
                        gluePoint1Iri, gluePoint2Iri, Tail(rest), FALSE), r)

\* variant: the first point of gluePoint2 is not moved
S_mergeGluePoints_SkipFirst(M, gluePoint1Iri, gluePoint2Iri, pointsToMove) ==
  IF gluePoint1Iri \notin DOMAIN CurD(M).gluePoints
     \/ gluePoint2Iri \notin DOMAIN CurD(M).gluePoints
  THEN Ret(SetStatus(M, "One or both glue points not found"), "false")
  ELSE S_mergeLoop(SetStatus(M, "Merging glue points..."),
                   gluePoint1Iri, gluePoint2Iri, Tail(pointsToMove))

\* mergeGluePoints: pointsToMove is Array.from(gluePoint2.connectedPoints)
S_mergeGluePoints(M, gluePoint1Iri, gluePoint2Iri, pointsToMove) ==
  IF gluePoint1Iri \notin DOMAIN CurD(M).gluePoints
     \/ gluePoint2Iri \notin DOMAIN CurD(M).gluePoints
  THEN Ret(SetStatus(M, "One or both glue points not found"), "false")
  ELSE S_mergeLoop(SetStatus(M, "Merging glue points..."),
                   gluePoint1Iri, gluePoint2Iri, pointsToMove)

\* createGluePoint returns the glue point or null; toggleConnection returns !!(that)
Truthy(r) == IF r.frames = <<>> /\ r.ret = "null" THEN [r EXCEPT !.ret = "false"] ELSE r

\* variant: with only point 2 glued, point 2 is added to its own glue point
S_toggleConnection_AddsSamePoint(M, pointIris, order) ==
  IF Len(pointIris) # 2
  THEN Ret(SetStatus(M, "Exactly two points are required to toggle a connection"), "false")
  ELSE LET gluePoint1 == DM_getGluePointForPoint(CurD(M), pointIris[1])
           gluePoint2 == DM_getGluePointForPoint(CurD(M), pointIris[2])
       IN IF gluePoint1 # NoGlue /\ gluePoint2 # NoGlue /\ gluePoint1 = gluePoint2
          THEN IF GP_pointCount(CurD(M).gluePoints[gluePoint1]) > 2
               THEN S_removePointFromGluePoint(M, pointIris[1], gluePoint1)
               ELSE removeGluePoint(M, gluePoint1)
          ELSE IF gluePoint1 # NoGlue /\ gluePoint2 # NoGlue
               THEN S_mergeGluePoints(M, gluePoint1, gluePoint2, order)
          ELSE IF gluePoint1 # NoGlue
               THEN S_addPointToGluePoint(M, pointIris[2], gluePoint1)
          ELSE IF gluePoint2 # NoGlue
               THEN S_addPointToGluePoint(M, pointIris[2], gluePoint2)
          ELSE Truthy(S_createGluePoint(M, pointIris))

\* variant: a shared glue point of 3 is removed whole
S_toggleConnection_RemovesGlueOfThree(M, pointIris, order) ==
  IF Len(pointIris) # 2
  THEN Ret(SetStatus(M, "Exactly two points are required to toggle a connection"), "false")
  ELSE LET gluePoint1 == DM_getGluePointForPoint(CurD(M), pointIris[1])
           gluePoint2 == DM_getGluePointForPoint(CurD(M), pointIris[2])
       IN IF gluePoint1 # NoGlue /\ gluePoint2 # NoGlue /\ gluePoint1 = gluePoint2
          THEN IF GP_pointCount(CurD(M).gluePoints[gluePoint1]) > 3
               THEN S_removePointFromGluePoint(M, pointIris[1], gluePoint1)
               ELSE removeGluePoint(M, gluePoint1)
          ELSE IF gluePoint1 # NoGlue /\ gluePoint2 # NoGlue
               THEN S_mergeGluePoints(M, gluePoint1, gluePoint2, order)
          ELSE IF gluePoint1 # NoGlue
               THEN S_addPointToGluePoint(M, pointIris[2], gluePoint1)
          ELSE IF gluePoint2 # NoGlue
               THEN S_addPointToGluePoint(M, pointIris[1], gluePoint2)
          ELSE Truthy(S_createGluePoint(M, pointIris))

\* toggleConnection: order is the iteration order of the Sets it walks
S_toggleConnection(M, pointIris, order) ==
  IF Len(pointIris) # 2
  THEN Ret(SetStatus(M, "Exactly two points are required to toggle a connection"), "false")
  ELSE LET gluePoint1 == DM_getGluePointForPoint(CurD(M), pointIris[1])
           gluePoint2 == DM_getGluePointForPoint(CurD(M), pointIris[2])
       IN IF gluePoint1 # NoGlue /\ gluePoint2 # NoGlue /\ gluePoint1 = gluePoint2
          THEN IF GP_pointCount(CurD(M).gluePoints[gluePoint1]) > 2
               THEN S_removePointFromGluePoint(M, pointIris[1], gluePoint1)
               ELSE removeGluePoint(M, gluePoint1)
          ELSE IF gluePoint1 # NoGlue /\ gluePoint2 # NoGlue
               THEN S_mergeGluePoints(M, gluePoint1, gluePoint2, order)
          ELSE IF gluePoint1 # NoGlue
               THEN S_addPointToGluePoint(M, pointIris[2], gluePoint1)
          ELSE IF gluePoint2 # NoGlue
               THEN S_addPointToGluePoint(M, pointIris[1], gluePoint2)
          ELSE Truthy(S_createGluePoint(M, pointIris))

\* -------------------------------- service V (part_003), to the await
V_createGluePoint(M, pointIris) ==
  IF Len(pointIris) < 2
  THEN Ret(SetStatus(M, "At least two points are required to create a glue point"), "null")
  ELSE IF ~arePointsFromDifferentObjects(SeqSet(pointIris))
  THEN Ret(SetStatus(M, "Glue points must connect points from different diagram objects"), "null")
  ELSE IF M.uuid > MaxGlueIris THEN Stuck(M)
  ELSE Suspend([SetStatus(SetCurD(M, DM_createGluePoint(CurD(M), pointIris, M.uuid)),
                          "Creating glue point...") EXCEPT !.uuid = @ + 1],
               UpdateFrame("createGluePointV", M.diagramData,
                           Query("create", M.uuid, 0, SeqSet(pointIris)), M.uuid, FALSE))

\* variant: the objects of the new point set are not looked at
V_addPointToGluePoint_NoObjectCheck(M, pointIri, gluePointIri) ==
  IF gluePointIri \notin DOMAIN CurD(M).gluePoints
  THEN Ret(SetStatus(M, "Glue point not found"), "false")
  ELSE IF GP_hasPoint(CurD(M).gluePoints[gluePointIri], pointIri)
  THEN Ret(SetStatus(M, "Point is already connected to this glue point"), "false")
  ELSE Suspend(SetStatus(AddPointLocally(M, pointIri, gluePointIri),
                         "Adding point to glue point..."),
               UpdateFrame("addPointToGluePoint", M.diagramData,
                           Query("add", gluePointIri, pointIri, {}), gluePointIri, FALSE))

V_addPointToGluePoint(M, pointIri, gluePointIri) ==
  IF gluePointIri \notin DOMAIN CurD(M).gluePoints
  THEN Ret(SetStatus(M, "Glue point not found"), "false")
  ELSE IF GP_hasPoint(CurD(M).gluePoints[gluePointIri], pointIri)
  THEN Ret(SetStatus(M, "Point is already connected to this glue point"), "false")
  ELSE IF ~arePointsFromDifferentObjects(CurD(M).gluePoints[gluePointIri] \cup {pointIri})
  THEN Ret(SetStatus(M, "Cannot add point: glue points must connect points from different objects"), "false")
  ELSE Suspend(SetStatus(AddPointLocally(M, pointIri, gluePointIri),
                         "Adding point to glue point..."),
               UpdateFrame("addPointToGluePoint", M.diagramData,
                           Query("add", gluePointIri, pointIri, {}), gluePointIri, FALSE))

\* variant: the glue point is removed only when fewer than 2 points remain
V_removePointFromGluePoint_CountOnly(M, pointIri, gluePointIri) ==
  IF gluePointIri \notin DOMAIN CurD(M).gluePoints
  THEN Ret(SetStatus(M, "Glue point not found"), "false")
  ELSE IF ~GP_hasPoint(CurD(M).gluePoints[gluePointIri], pointIri)
  THEN Ret(SetStatus(M, "Point is not connected to this glue point"), "false")
  ELSE LET remainingPoints == CurD(M).gluePoints[gluePointIri] \ {pointIri} IN
       IF Cardinality(remainingPoints) < 2
       THEN removeGluePoint(M, gluePointIri)
       ELSE Suspend(SetStatus(RemovePointLocally(M, pointIri, gluePointIri),
                              "Removing point from glue point..."),
                    UpdateFrame("removePointFromGluePointV", M.diagramData,
                                Query("removePt", gluePointIri, pointIri, {}), gluePointIri, FALSE))

V_removePointFromGluePoint(M, pointIri, gluePointIri) ==
  IF gluePointIri \notin DOMAIN CurD(M).gluePoints
  THEN Ret(SetStatus(M, "Glue point not found"), "false")
  ELSE IF ~GP_hasPoint(CurD(M).gluePoints[gluePointIri], pointIri)
  THEN Ret(SetStatus(M, "Point is not connected to this glue point"), "false")
  ELSE LET remainingPoints == CurD(M).gluePoints[gluePointIri] \ {pointIri} IN
       IF Cardinality(remainingPoints) < 2 \/ ~arePointsFromDifferentObjects(remainingPoints)
       THEN removeGluePoint(M, gluePointIri)
       ELSE Suspend(SetStatus(RemovePointLocally(M, pointIri, gluePointIri),
                              "Removing point from glue point..."),
                    UpdateFrame("removePointFromGluePointV", M.diagramData,
                                Query("removePt", gluePointIri, pointIri, {}), gluePointIri, FALSE))

\* createGluePointFromSelectedPoints: selected is Array.from(selectedPoints)
V_createGluePointFromSelectedPoints(M, selected) ==
  IF Len(selected) < 2
  THEN Ret(SetStatus(M, "Select at least two points to create a glue point"), "false")
  ELSE IF ~arePointsFromDifferentObjects(SeqSet(selected))
  THEN Ret(SetStatus(M, "Glue points must connect points from different diagram objects"), "false")
  ELSE Truthy(V_createGluePoint(M, selected))


\* ------------------------------- PointService: rotating and mirroring, to the await
\* variant: an empty selection is let through
validateSelectedPointsForTransformation_NoCheck(D, selected, operation) ==
  [selectedPoints |-> SelectSeq(D.points, LAMBDA p : p \in selected),
   validationError |-> "null"]

\* validateSelectedPointsForTransformation: the points of the diagram whose iri
\* is selected, in the order of diagram.points, or a validation error
validateSelectedPointsForTransformation(D, selected, operation) ==
  IF selected = {}
  THEN [selectedPoints |-> <<>>,
        validationError |-> IF operation = "rotate" THEN "Nothing selected to rotate"
                                                    ELSE "Nothing selected to mirror"]
  ELSE IF SelectSeq(D.points, LAMBDA p : p \in selected) = <<>>
  THEN [selectedPoints |-> <<>>,
        validationError |-> IF operation = "rotate" THEN "No valid points to rotate"
                                                    ELSE "No valid points to mirror"]
  ELSE [selectedPoints |-> SelectSeq(D.points, LAMBDA p : p \in selected),
        validationError |-> "null"]

\* sumX / sumY of calculatePointsCenter: the coordinate c summed over the points
RECURSIVE SumCoord(_, _)
SumCoord(c, points) ==
  IF points = <<>> THEN 0 ELSE c[Head(points)] + SumCoord(c, Tail(points))

\* variant: the centre of all the points of the diagram
calculatePointsCenter_AllPoints(D, points) ==
  IF points = <<>> THEN [x |-> 0, y |-> 0]
  ELSE [x |-> SumCoord(D.x, D.points) \div Len(D.points),
        y |-> SumCoord(D.y, D.points) \div Len(D.points)]

\* The numbers of the program are binary floating-point numbers: the result of
\* an operation is the exact result rounded to the nearest number with
\* SignificandBits significant bits, ties to the even one. Here the smallest
\* step is 1 and the significand is short; num / den stands for the exact result
RECURSIVE Pow2(_)
Pow2(n) == IF n = 0 THEN 1 ELSE 2 * Pow2(n - 1)

RECURSIVE UlpFrom(_, _)
UlpFrom(a, u) == IF a < Pow2(SignificandBits) * u THEN u ELSE UlpFrom(a, 2 * u)

RoundToNearest(num, den) ==
  LET a == IF num < 0 THEN 0 - num ELSE num
      u == UlpFrom(a \div den, 1)
      f == a \div (den * u)
      r == a % (den * u)
      n == IF 2 * r > den * u \/ (2 * r = den * u /\ f % 2 = 1) THEN f + 1 ELSE f
  IN IF num < 0 THEN 0 - n * u ELSE n * u

\* calculatePointsCenter's forEach: sum += point's coordinate, from sum on
RECURSIVE sumOver(_, _, _)
sumOver(c, points, sum) ==
  IF points = <<>> THEN sum
  ELSE sumOver(c, Tail(points), RoundToNearest(sum + c[Head(points)], 1))

\* calculatePointsCenter: the mean of the points as the program computes it
\* (it is the exact mean for the coordinates of CenterIsWhole)
calculatePointsCenter(D, points) ==
  IF points = <<>> THEN [x |-> 0, y |-> 0]
  ELSE [x |-> RoundToNearest(sumOver(D.x, points, 0), Len(points)),
        y |-> RoundToNearest(sumOver(D.y, points, 0), Len(points))]

\* the mean of the points is a pair of whole numbers
CenterIsWhole(D, points) ==
  IF points = <<>> THEN TRUE
  ELSE SumCoord(D.x, points) % Len(points) = 0 /\ SumCoord(D.y, points) % Len(points) = 0

\* the rotation buttons: +90 and -90 degrees
Rotations == {90, 0 - 90}

\* getRotationTrigValues, for the quarter turns of the buttons (cos taken as 0)
getRotationTrigValues(degrees) ==
  [sin |-> IF degrees = 90 THEN 1 ELSE 0 - 1, cos |-> 0]

\* calculateRotatedPositionsForPoints: the rotation matrix about center
calculateRotatedPositionsForPoints(D, points, center, sin, cos) ==
  [i \in 1..Len(points) |->
     [point |-> points[i],
      newX |-> center.x + ((D.x[points[i]] - center.x) * cos - (D.y[points[i]] - center.y) * sin),
      newY |-> center.y + ((D.x[points[i]] - center.x) * sin + (D.y[points[i]] - center.y) * cos)]]

\* calculateHorizontallyMirroredPositionsForPoints (and a variant that
\* reflects about half the centre)
calculateHorizontallyMirroredPositionsForPoints_AboutHalf(D, points, center) ==
  [i \in 1..Len(points) |->
     [point |-> points[i], newX |-> RoundToNearest(center.x - D.x[points[i]], 1),
      newY |-> D.y[points[i]]]]
calculateHorizontallyMirroredPositionsForPoints(D, points, center) ==
  [i \in 1..Len(points) |->
     [point |-> points[i], newX |-> RoundToNearest(2 * center.x - D.x[points[i]], 1),
      newY |-> D.y[points[i]]]]

\* calculateVerticallyMirroredPositionsForPoints
calculateVerticallyMirroredPositionsForPoints(D, points, center) ==
  [i \in 1..Len(points) |->
     [point |-> points[i], newX |-> D.x[points[i]],
      newY |-> RoundToNearest(2 * center.y - D.y[points[i]], 1)]]

\* updateLocalPointPositions: point.x = newX, point.y = newY for each entry
RECURSIVE updateLocalPointPositions(_, _)
updateLocalPointPositions(D, pointsToUpdate) ==
  IF pointsToUpdate = <<>> THEN D
  ELSE updateLocalPointPositions(
         [D EXCEPT !.x[Head(pointsToUpdate).point] = Head(pointsToUpdate).newX,
                   !.y[Head(pointsToUpdate).point] = Head(pointsToUpdate).newY],
         Tail(pointsToUpdate))

\* preparePositionUpdateData and buildUpdateDiagramPointPositionsQuery: the
\* points and the position each is to be given
PositionsQuery(pointsToUpdate) ==
  [NoQuery EXCEPT
     !.kind = "positions",
     !.pts = {pointsToUpdate[i].point : i \in 1..Len(pointsToUpdate)},
     !.pos = [p \in {pointsToUpdate[i].point : i \in 1..Len(pointsToUpdate)} |->
                LET i == CHOOSE i \in 1..Len(pointsToUpdate) : pointsToUpdate[i].point = p
                IN <<pointsToUpdate[i].newX, pointsToUpdate[i].newY>>]]

\* updatePointPositionsAbsolute, to its await
updatePointPositionsAbsolute(M, pointsToUpdate) ==
  IF pointsToUpdate = <<>> THEN Ret(M, "false")
  ELSE Suspend(SetStatus(M, "Updating point positions..."),
               UpdateFrame("updatePointPositionsAbsolute", 0,
                           PositionsQuery(pointsToUpdate), NoGlue, FALSE))

\* what a transformation reports when updatePointPositionsAbsolute has returned
TransformedStatus(fn) ==
  CASE fn = "rotateSelectedPoints"             -> "Rotated points"
    [] fn = "mirrorSelectedPointsHorizontally" -> "Mirrored points horizontally"
    [] OTHER                                   -> "Mirrored points vertically"

\* a transformation from "Update local model first" on: the points are given
\* their new positions, the store is set, updatePointPositionsAbsolute is
\* awaited and its result dropped
transformPoints(M, fn, pointsToUpdate) ==
  LET r == updatePointPositionsAbsolute(
             SetCurD(M, updateLocalPointPositions(CurD(M), pointsToUpdate)), pointsToUpdate)
  IN IF r.frames = <<>> THEN Ret(SetStatus(r.M, TransformedStatus(fn)), "true")
     ELSE Under(Frame(fn, "afterAbsolute", 0, NoQuery, NoGlue, NoGlue, <<>>, FALSE), r)

\* rotateSelectedPoints(degrees), to its await
rotateSelectedPoints(M, selected, degrees) ==
  LET v == validateSelectedPointsForTransformation(CurD(M), selected, "rotate")
      center == calculatePointsCenter(CurD(M), v.selectedPoints)
      trig == getRotationTrigValues(degrees)
  IN IF v.validationError # "null" THEN Ret(SetStatus(M, v.validationError), "false")
     ELSE transformPoints(SetStatus(M, "Rotating points..."), "rotateSelectedPoints",
            calculateRotatedPositionsForPoints(CurD(M), v.selectedPoints, center,
                                               trig.sin, trig.cos))

\* mirrorSelectedPointsHorizontally, to its await
mirrorSelectedPointsHorizontally(M, selected) ==
  LET v == validateSelectedPointsForTransformation(CurD(M), selected, "mirror")
      center == calculatePointsCenter(CurD(M), v.selectedPoints)
  IN IF v.validationError # "null" THEN Ret(SetStatus(M, v.validationError), "false")
     ELSE transformPoints(SetStatus(M, "Mirroring points horizontally..."),
            "mirrorSelectedPointsHorizontally",
            calculateHorizontallyMirroredPositionsForPoints(CurD(M), v.selectedPoints, center))

\* mirrorSelectedPointsVertically, to its await
mirrorSelectedPointsVertically(M, selected) ==
  LET v == validateSelectedPointsForTransformation(CurD(M), selected, "mirror")
      center == calculatePointsCenter(CurD(M), v.selectedPoints)
  IN IF v.validationError # "null" THEN Ret(SetStatus(M, v.validationError), "false")
     ELSE transformPoints(SetStatus(M, "Mirroring points vertically..."),
            "mirrorSelectedPointsVertically",
            calculateVerticallyMirroredPositionsForPoints(CurD(M), v.selectedPoints, center))

\* --------------------------- PointService: inserting and deleting points, to the await
\* Array.prototype.splice(index, 0, item)
SpliceIn(array, index, item) ==
  LET i == IF index > Len(array) THEN Len(array) ELSE index
  IN SubSeq(array, 1, i) \o <<item>> \o SubSeq(array, i + 1, Len(array))

\* Array.prototype.splice(index, 1): a negative index counts from the end
SpliceOut(array, index) ==
  LET i == IF index >= 0 THEN index
           ELSE IF Len(array) + index > 0 THEN Len(array) + index ELSE 0
  IN IF i >= Len(array) THEN array
     ELSE SubSeq(array, 1, i) \o SubSeq(array, i + 2, Len(array))

\* Array.prototype.findIndex(p => p.iri === iri): -1 when there is none
findIndex(array, iri) ==
  IF \E i \in 1..Len(array) : array[i] = iri
  THEN (CHOOSE i \in 1..Len(array) :
          array[i] = iri /\ \A j \in 1..(i - 1) : array[j] # iri) - 1
  ELSE 0 - 1

\* variant: the points keep the sequence numbers they had
Renumber_Skipped(sequenceNumber, points) == sequenceNumber

\* object.points.forEach((point, index) => point.sequenceNumber = index)
Renumber(sequenceNumber, points) ==
  [p \in DOMAIN sequenceNumber |->
     IF findIndex(points, p) >= 0 THEN findIndex(points, p) ELSE sequenceNumber[p]]

\* the position a double click inserts a point at
InsertPositions == {[x |-> 0, y |-> 0]}

\* buildUpdateSequenceNumbersQuery(sequenceUpdates): each point of the object
\* with its index
SequenceQuery(object, points) ==
  [NoQuery EXCEPT !.kind = "sequence", !.obj = object, !.pts = SeqSet(points),
                  !.seq = [p \in SeqSet(points) |-> findIndex(points, p)]]

\* addNewPointToLine, to its first await: the new PointModel is spliced into
\* object.points, the object's points are renumbered, the point is pushed to
\* diagram.points, the store is set and the insert query is sent.
\* The frame keeps newPointIri (g), object (g2) and sequenceUpdates (rest).
addNewPointToLine(M, object, position, insertIndex) ==
  LET newPointIri == NPoints + M.uuid
      points == SpliceIn(CurD(M).objects[object].points, insertIndex, newPointIri)
      D == [CurD(M) EXCEPT
              !.x = MapSet(@, newPointIri, position.x),
              !.y = MapSet(@, newPointIri, position.y),
              !.parent = MapSet(@, newPointIri, object),
              !.objects[object].points = points,
              !.sequenceNumber = Renumber(MapSet(@, newPointIri, insertIndex), points),
              !.points = Append(@, newPointIri)]
  IN Suspend([SetStatus(SetCurD(M, D), "Adding new point...") EXCEPT !.uuid = @ + 1],
             Frame("addNewPointToLine", "update", M.diagramData,
                   [NoQuery EXCEPT !.kind = "insertPoint", !.p = newPointIri, !.obj = object,
                                   !.pts = {newPointIri},
                                   !.pos = [q \in {newPointIri} |-> <<position.x, position.y>>],
                                   !.seq = [q \in {newPointIri} |-> insertIndex]],
                   newPointIri, object, points, FALSE))

\* variant: a polygon keeps its flag whatever is left of it
deletePointFromLine_KeepsFlag(M, point) ==
  LET object == CurD(M).parent[point]
      pointIndex == findIndex(CurD(M).objects[object].points, point)
      points == SpliceOut(CurD(M).objects[object].points, pointIndex)
      D == [CurD(M) EXCEPT
              !.objects[object].points = points,
              !.sequenceNumber = Renumber(@, points)]
  IN IF ~CurD(M).objects[object].isPolygon
        /\ (pointIndex = 0 \/ pointIndex = Len(CurD(M).objects[object].points) - 1)
     THEN Ret(SetStatus(M, "Cannot delete first or last point of a line"), "false")
     ELSE Suspend(SetStatus(SetCurD(M, D), "Deleting point..."),
                  Frame("deletePointFromLine", "update", M.diagramData,
                        [NoQuery EXCEPT !.kind = "deletePoint", !.p = point, !.obj = object],
                        point, object, points, FALSE))

\* deletePointFromLine, to its first await: object is point.parentObject; the
\* point is spliced out of object.points, a polygon left with fewer than 3
\* points loses isPolygon, the object's points are renumbered and the delete
\* query is sent. The frame keeps point (g), object (g2), sequenceUpdates
\* (rest) and needsPolygonUpdate (flag).
deletePointFromLine(M, point) ==
  LET object == CurD(M).parent[point]
      pointIndex == findIndex(CurD(M).objects[object].points, point)
      points == SpliceOut(CurD(M).objects[object].points, pointIndex)
      needsPolygonUpdate == CurD(M).objects[object].isPolygon /\ Len(points) < 3
      D == [CurD(M) EXCEPT
              !.objects[object].points = points,
              !.objects[object].isPolygon = IF needsPolygonUpdate THEN FALSE ELSE @,
              !.sequenceNumber = Renumber(@, points)]
  IN IF ~CurD(M).objects[object].isPolygon
        /\ (pointIndex = 0 \/ pointIndex = Len(CurD(M).objects[object].points) - 1)
     THEN Ret(SetStatus(M, "Cannot delete first or last point of a line"), "false")
     ELSE Suspend(SetStatus(SetCurD(M, D), "Deleting point..."),
                  Frame("deletePointFromLine", "update", M.diagramData,
                        [NoQuery EXCEPT !.kind = "deletePoint", !.p = point, !.obj = object],
                        point, object, points, needsPolygonUpdate))

\* the next await of frame f, with query q
NextUpdate(M, f, q) == Suspend(M, [f EXCEPT !.q = q])

\* addNewPointToLine after an await: the sequence numbers are sent once the
\* insert succeeded; after them the status is set and true returned
addNewPointToLine_AfterUpdate(M, f) ==
  IF f.q.kind = "insertPoint" THEN NextUpdate(M, f, SequenceQuery(f.g2, f.rest))
  ELSE Ret(SetStatus(M, "New point added"), "true")

\* deletePointFromLine after its awaits: the point is spliced out of the points
\* of the diagram captured in currentDiagram, which is set as the store's diagram
deletePointFromLine_Finish(M, f) ==
  Ret([SetStatus(M, "Point deleted successfully") EXCEPT
         !.diagrams[f.d].points =
            IF findIndex(@, f.g) >= 0 THEN SpliceOut(@, findIndex(@, f.g)) ELSE @,
         !.diagramData = f.d],
      "true")

\* variant: the polygon property is sent after every deletion
deletePointFromLine_AfterUpdate_PolygonAlways(M, f) ==
  IF f.q.kind = "deletePoint" THEN NextUpdate(M, f, SequenceQuery(f.g2, f.rest))
  ELSE IF f.q.kind = "sequence"
  THEN NextUpdate(M, f, [NoQuery EXCEPT !.kind = "polygon", !.obj = f.g2])
  ELSE deletePointFromLine_Finish(M, f)

\* deletePointFromLine after an await: the delete query, then the sequence
\* numbers, then the polygon property if needsPolygonUpdate, then the finish
deletePointFromLine_AfterUpdate(M, f) ==
  IF f.q.kind = "deletePoint" THEN NextUpdate(M, f, SequenceQuery(f.g2, f.rest))
  ELSE IF f.q.kind = "sequence" /\ f.flag
  THEN NextUpdate(M, f, [NoQuery EXCEPT !.kind = "polygon", !.obj = f.g2])
  ELSE deletePointFromLine_Finish(M, f)

\* ------------------------------------------------------ the loaded diagram
\* A valid glue state as the remote store holds it: e[p] is the glue point of
\* point p (0: none); glue points are numbered 1..k in the order of their
\* least point, each has at least 2 points from at least 2 objects
ValidLoad(e) ==
  LET used == {e[p] : p \in Points} \ {0}
      members(g) == {p \in Points : e[p] = g}
      least(g) == CHOOSE p \in members(g) : \A q \in members(g) : p <= q
  IN /\ used = 1..Cardinality(used)
     /\ \A g \in used : Cardinality(members(g)) >= 2 /\ arePointsFromDifferentObjects(members(g))
     /\ \A g, h \in used : g < h => least(g) < least(h)

\* The bindings of the loaded diagram: point p is the ((p-1) \div NObjects)-th
\* point of its object, object 1 is a polygon and the others are lines
loadedSequenceNumber(p) == (p - 1) \div NObjects
loadedIsPolygon(o) == o = 1

\* DiagramObjectModel.addPoint for each binding of object o: the points of o,
\* sorted by sequence number
loadedObjectPoints(o) ==
  [i \in 1..Cardinality({p \in Points : parentObject(p) = o}) |->
     CHOOSE p \in Points : parentObject(p) = o /\ loadedSequenceNumber(p) = i - 1]

\* DiagramModel.fromSparqlResults on the bindings of such a glue state:
\* the objects and their points, then a GluePointModel per glue IRI,
\* addGluePoint for each
fromSparqlResults(e) ==
  [gluePoints |-> [g \in {e[p] : p \in Points} \ {0} |-> {p \in Points : e[p] = g}],
   pointToGluePointMap |-> [p \in {q \in Points : e[q] # 0} |-> e[p]],
   x |-> [p \in Points |-> CoordUnit * p],
   y |-> [p \in Points |-> CoordUnit * parentObject(p)],
   objects |-> [o \in Objects |-> [points |-> loadedObjectPoints(o),
                                   isPolygon |-> loadedIsPolygon(o)]],
   points |-> [i \in 1..NPoints |-> i],
   sequenceNumber |-> [p \in Points |-> loadedSequenceNumber(p)],
   parent |-> [p \in Points |-> parentObject(p)]]

\* A glue state of the remote store whose glue points need not be valid:
\* fromSparqlResults builds a glue point from any binding that names one
AnyLoad(e) ==
  LET used == {e[p] : p \in Points} \ {0}
      members(g) == {p \in Points : e[p] = g}
      least(g) == CHOOSE p \in members(g) : \A q \in members(g) : p <= q
  IN /\ used = 1..Cardinality(used)
     /\ \A g, h \in used : g < h => least(g) < least(h)

\* The diagrams loaded from a remote store that holds any glue state
AnyLoadedDiagrams == {fromSparqlResults(e) : e \in {e \in [Points -> 0..MaxLoadedGlue] : AnyLoad(e)}}

\* The diagrams loaded from a remote store that holds a valid glue state
LoadedDiagrams == {fromSparqlResults(e) : e \in {e \in [Points -> 0..MaxLoadedGlue] : ValidLoad(e)}}

\* ----------------------------------------------------- tasks and events
NoArgs == [pts |-> <<>>, p |-> 0, g |-> NoGlue, sel |-> {}, dx |-> 0, dy |-> 0,
           deg |-> 0, obj |-> 0, idx |-> 0,
           pos |-> [x |-> 0, y |-> 0], ctrlKey |-> FALSE, altKey |-> FALSE,
           pinned |-> FALSE, showGluePoints |-> FALSE, confirmDelete |-> FALSE]
Args(pts, p, g) == [NoArgs EXCEPT !.pts = pts, !.p = p, !.g = g]
\* what is kept of a toggleConnection that returned true just before an
\* operation was called
NoPrev == [op |-> "none", a |-> NoArgs, pre |-> NullDiagram]
Idle == [stack |-> <<>>, op |-> "none", a |-> NoArgs, pre |-> NullDiagram,
         allOk |-> TRUE, solo |-> TRUE, prev |-> NoPrev]
Active(t) == tasks[t].stack # <<>>
Top(t) == tasks[t].stack[Len(tasks[t].stack)]
\* the slot a new operation takes: the lowest idle one
FreeTask(t) == ~Active(t) /\ \A u \in Tasks : u < t => Active(u)

Event(op, phase, a, pre, res, issued, q, allOk, solo, prev) ==
  [op |-> op, phase |-> phase, a |-> a, pre |-> pre, res |-> res,
   issued |-> issued, q |-> q, allOk |-> allOk, solo |-> solo, prev |-> prev]

\* the toggleConnection or mirroring whose return is the last event, if it
\* returned true with every update succeeding and nothing else running meanwhile
JustReturned ==
  IF last.op \in {"toggleConnection", "mirrorSelectedPointsHorizontally",
                  "mirrorSelectedPointsVertically"}
     /\ last.phase = "return" /\ last.res = "true"
     /\ last.allOk /\ last.solo
  THEN [op |-> last.op, a |-> last.a, pre |-> last.pre]
  ELSE NoPrev

\* the update a synchronous stretch issued before it suspended
Issued(r) == IF r.issued > 0 THEN r.frames[Len(r.frames)].q ELSE NoQuery

\* DiagramModel objects still reachable: those captured by frames, and the store's
StillCaptured(tks) ==
  (UNION {{tks[t].stack[i].d : i \in 1..Len(tks[t].stack)} : t \in Tasks}) \ {0}
Refs(store, tks) == {store} \cup StillCaptured(tks)

\* Write back the machine state and the tasks; unreachable DiagramModels are dropped
Commit(M, tks) ==
  /\ diagrams' = [h \in Heap |-> IF h \in Refs(M.diagramData, tks)
                                 THEN M.diagrams[h] ELSE NullDiagram]
  /\ diagramData' = M.diagramData
  /\ uuid' = M.uuid
  /\ status' = M.status
  /\ selectedGluePoint' = M.selectedGluePoint
  /\ interactionState' = M.interactionState
  /\ canvas' = M.canvas
  /\ tasks' = tks

\* What a top-level operation hands its caller: toggleConnection and
\* createGluePointFromSelectedPoints turn createGluePoint's result into a boolean
Result(op, ret) ==
  IF op \in {"toggleConnection", "createGluePointFromSelectedPoints"}
  THEN (IF ret = "gluePoint" THEN "true" ELSE IF ret = "null" THEN "false" ELSE ret)
  ELSE ret

\* An operation is called in slot t and runs to its first await, or returns
\* (r); maxOps operations are called in one run
CallWithin(maxOps, t, op, a, r) ==
  /\ ops < maxOps
  /\ FreeTask(t)
  /\ ~r.stuck
  /\ ops' = ops + 1
  /\ Commit(r.M,
       [u \in Tasks |->
          IF u = t
          THEN (IF r.frames = <<>> THEN Idle
                ELSE [stack |-> r.frames, op |-> op, a |-> a, pre |-> CurD(Machine),
                      allOk |-> TRUE, solo |-> \A v \in Tasks : ~Active(v),
                      prev |-> JustReturned])
          ELSE [tasks[u] EXCEPT !.solo = FALSE]])
  /\ last' = Event(op, IF r.frames = <<>> THEN "return" ELSE "call", a, CurD(Machine),
                   Result(op, r.ret), r.issued, Issued(r), TRUE, \A v \in Tasks : ~Active(v),
                   JustReturned)

Call(t, op, a, r) == CallWithin(MaxOps, t, op, a, r)

\* The code after an await, to the next await or the return (r), in slot t
Step(t, r, allOk) ==
  /\ Commit(r.M,
       [tasks EXCEPT ![t] = IF r.frames = <<>> THEN Idle
                            ELSE [@ EXCEPT !.stack = r.frames, !.allOk = allOk]])
  /\ ops' = ops
  /\ last' = Event(tasks[t].op, IF r.frames = <<>> THEN "return" ELSE "step",
                   tasks[t].a, tasks[t].pre, Result(tasks[t].op, r.ret), r.issued,
                   Issued(r), allOk, tasks[t].solo, tasks[t].prev)

\* ------------------------------------------------ the code after an await
SuccessStatus(fn) ==
  CASE fn \in {"createGluePoint", "createGluePointV"} -> "Glue point created successfully"
    [] fn = "removeGluePoint"           -> "Glue point removed successfully"
    [] fn = "addPointToGluePoint"       -> "Point added to glue point successfully"
    [] fn \in {"updatePointPositions", "updatePointPositionsAbsolute"} -> "Updated points"
    [] OTHER                            -> "Point removed from glue point successfully"

\* The caller's code after its awaited call returned
Continue(M, caller) ==
  IF caller.fn = "mergeGluePoints" /\ caller.pc = "loop"
  THEN S_mergeLoop(M, caller.g, caller.g2, caller.rest)
  ELSE IF caller.fn = "mergeGluePoints"
  THEN Ret(SetStatus(M, "Glue points merged successfully"), "true")
  ELSE IF caller.pc = "afterAbsolute"
  THEN Ret(SetStatus(M, TransformedStatus(caller.fn)), "true")
  ELSE Ret(SetStatus(M, "Point removed from glue point successfully"), "true")

\* A frame returns ret: to its caller if it has one, else the operation is over
Return(M, below, ret) ==
  IF below = <<>> THEN Ret(M, ret)
  ELSE IF below[1].fn = "handleDeleteKeyOnGluePoint"
  THEN V_handleDeleteLoop(M, below[1].rest, below[1].flag /\ ret = "true")
  ELSE Continue(M, below[1])

\* After `await executeUpdate(query)` succeeded, in frame f
AfterUpdate(M, f, below) ==
  IF f.fn = "addNewPointToLine" THEN addNewPointToLine_AfterUpdate(M, f)
  ELSE IF f.fn = "deletePointFromLine" THEN deletePointFromLine_AfterUpdate(M, f)
  ELSE IF f.fn = "removePointFromGluePoint"
  THEN \* service S: removeGluePoint if fewer than 2 points were left, else set the store
       IF f.flag
       THEN LET r == removeGluePoint(M, f.g) IN
            IF r.frames = <<>>
            THEN Ret(SetStatus(r.M, "Point removed from glue point successfully"), "true")
            ELSE Under(Frame("removePointFromGluePoint", "afterRemove", 0, NoQuery,
                             f.g, NoGlue, <<>>, FALSE), r)
       ELSE Ret([SetStatus(M, SuccessStatus(f.fn)) EXCEPT !.diagramData = f.d], "true")
  ELSE IF f.fn = "updatePointPositions"
  THEN Ret(SetStatus(M, SuccessStatus(f.fn)), "true")
  ELSE IF f.fn = "updatePointPositionsAbsolute"
  THEN Return(SetStatus(M, SuccessStatus(f.fn)), below, "true")
  ELSE IF f.fn = "createGluePointV"
  THEN \* service V: set the store, select the new glue point
       Return([SetStatus(M, SuccessStatus(f.fn)) EXCEPT !.diagramData = f.d,
                                                        !.selectedGluePoint = f.g],
              below, "gluePoint")
  ELSE \* diagramData.set(currentDiagram); updateStatus(...); return
       Return([SetStatus(M, SuccessStatus(f.fn)) EXCEPT !.diagramData = f.d], below,
              IF f.fn = "createGluePoint" THEN "gluePoint" ELSE "true")

\* The selection after frame f went on to r: addNewPointToLine, when it returns
\* true, does clearSelection() and togglePointSelection(newPointIri);
\* deletePointFromLine does clearSelection()
SelectionAfter(f, r) ==
  IF r.frames = <<>> /\ f.fn = "addNewPointToLine" THEN {f.g}
  ELSE IF r.frames = <<>> /\ f.fn = "deletePointFromLine" THEN {}
  ELSE selectedPoints

\* executeUpdate of the top frame of task t succeeds
UpdateSucceeds(t) ==
  /\ Active(t)
  /\ Top(t).pc = "update"
  /\ Step(t, AfterUpdate(Machine, Top(t), SubSeq(tasks[t].stack, 1, Len(tasks[t].stack) - 1)),
          tasks[t].allOk)
  /\ selectedPoints' =
       SelectionAfter(Top(t), AfterUpdate(Machine, Top(t),
                                          SubSeq(tasks[t].stack, 1, Len(tasks[t].stack) - 1)))
  /\ UNCHANGED failures

\* variant: the catch block reports the error and returns without a reload
UpdateFails_NoReload(t) ==
  /\ Active(t)
  /\ Top(t).pc = "update"
  /\ failures < MaxFailures
  /\ failures' = failures + 1
  /\ Step(t, Return(SetStatus(Machine, "Error: update failed"),
                    SubSeq(tasks[t].stack, 1, Len(tasks[t].stack) - 1), "false"),
          FALSE)
  /\ UNCHANGED selectedPoints

\* executeUpdate of the top frame of task t throws: the catch block reports the
\* error and awaits diagramService.reloadDiagram()
UpdateFails(t) ==
  /\ Active(t)
  /\ Top(t).pc = "update"
  /\ failures < MaxFailures
  /\ failures' = failures + 1
  /\ Step(t, [M |-> SetStatus(Machine, "Error: update failed"),
              frames |-> [tasks[t].stack EXCEPT ![Len(tasks[t].stack)].pc = "reload"],
              ret |-> "pending", issued |-> 0, stuck |-> FALSE],
          FALSE)
  /\ UNCHANGED selectedPoints

\* reloadDiagram of the top frame of task t completes: a DiagramModel loaded
\* from the remote store becomes the store's diagram (h is a fresh DiagramModel),
\* the selection is cleared, and the catch block returns false / null
ReloadCompletes(t) ==
  /\ Active(t)
  /\ Top(t).pc = "reload"
  /\ \E D \in LoadedDiagrams :
       LET live == StillCaptured([tasks EXCEPT ![t].stack = SubSeq(@, 1, Len(@) - 1)])
           h == CHOOSE h \in Heap \ live : \A k \in Heap \ live : h <= k
           M == [Machine EXCEPT !.diagrams[h] = D, !.diagramData = h]
       IN Step(t, Return(M, SubSeq(tasks[t].stack, 1, Len(tasks[t].stack) - 1),
                         IF Top(t).fn \in {"createGluePoint", "createGluePointV"}
                         THEN "null" ELSE "false"),
               FALSE)
  /\ selectedPoints' = {}
  /\ UNCHANGED failures


\* ------------------------------------------------------------------ inputs
\* pointIris arrays an operation may be handed
PointIrisInputs == UNION {[1..n -> Points] : n \in 0..MaxIris}
\* the orders in which a Set's elements may be iterated
Orders(S) == {o \in [1..Cardinality(S) -> S] : \A i, j \in 1..Cardinality(S) : i # j => o[i] # o[j]}

\* diagram D has been loaded; up to n operations may be suspended at once
InitTasks(D, n) ==
    /\ diagrams = [h \in 1..(2 * n + 2) |-> IF h = 1 THEN D ELSE NullDiagram]
    /\ diagramData = 1
    /\ uuid = Cardinality(DOMAIN D.gluePoints) + 1
    /\ status = ""
    /\ tasks = [t \in 1..n |-> Idle]
    /\ selectedPoints = {}
    /\ selectedGluePoint = NoGlue
    /\ interactionState = NoInteraction
    /\ canvas = NoCanvas
    /\ failures = 0
    /\ ops = 0
    /\ last = Event("load", "return", NoArgs, NullDiagram, "true", 0, NoQuery, TRUE, TRUE, NoPrev)

InitWith(D) == InitTasks(D, MaxTasks)

\* a valid diagram has been loaded
Init == \E D \in LoadedDiagrams : InitWith(D)

\* a diagram has been loaded whose glue points were not validated
InitAny == \E D \in AnyLoadedDiagrams : InitWith(D)

\* ------------------------------------------------------- actions, service S
S_CreateGluePoint(t, pointIris) ==
  /\ Call(t, "createGluePoint", Args(pointIris, 0, NoGlue), S_createGluePoint(Machine, pointIris))
  /\ UNCHANGED <<selectedPoints, failures>>

RemoveGluePoint(t, gluePointIri) ==
  /\ Call(t, "removeGluePoint", Args(<<>>, 0, gluePointIri), removeGluePoint(Machine, gluePointIri))
  /\ UNCHANGED <<selectedPoints, failures>>

S_AddPointToGluePoint(t, pointIri, gluePointIri) ==
  /\ Call(t, "addPointToGluePoint", Args(<<>>, pointIri, gluePointIri),
          S_addPointToGluePoint(Machine, pointIri, gluePointIri))
  /\ UNCHANGED <<selectedPoints, failures>>

S_RemovePointFromGluePoint(t, pointIri, gluePointIri) ==
  /\ Call(t, "removePointFromGluePoint", Args(<<>>, pointIri, gluePointIri),
          S_removePointFromGluePoint(Machine, pointIri, gluePointIri))
  /\ UNCHANGED <<selectedPoints, failures>>

\* the points mergeGluePoints would move, were toggleConnection to merge
MergeSource(D, pointIris) ==
  IF Len(pointIris) = 2
     /\ DM_getGluePointForPoint(D, pointIris[1]) # NoGlue
     /\ DM_getGluePointForPoint(D, pointIris[2]) # NoGlue
     /\ DM_getGluePointForPoint(D, pointIris[1]) # DM_getGluePointForPoint(D, pointIris[2])
  THEN D.gluePoints[DM_getGluePointForPoint(D, pointIris[2])]
  ELSE {}

S_ToggleConnection(t, pointIris) ==
  /\ \E order \in Orders(MergeSource(CurD(Machine), pointIris)) :
       Call(t, "toggleConnection", Args(pointIris, 0, NoGlue),
            S_toggleConnection(Machine, pointIris, order))
  /\ UNCHANGED <<selectedPoints, failures>>

NextS ==
  \E t \in Tasks :
    \/ \E pointIris \in PointIrisInputs : S_CreateGluePoint(t, pointIris)
    \/ \E g \in GlueIris : RemoveGluePoint(t, g)
    \/ \E p \in Points, g \in GlueIris : S_AddPointToGluePoint(t, p, g)
    \/ \E p \in Points, g \in GlueIris : S_RemovePointFromGluePoint(t, p, g)
    \/ \E pointIris \in PointIrisInputs : S_ToggleConnection(t, pointIris)
    \/ UpdateSucceeds(t)
    \/ UpdateFails(t)
    \/ ReloadCompletes(t)

SpecS == Init /\ [][NextS]_vars

\* ------------------------------------------------------- actions, service V
\* togglePointSelection of InteractionState: a click on point p
TogglePointSelection(pointIri) ==
  /\ selectedPoints' = IF pointIri \in selectedPoints THEN selectedPoints \ {pointIri}
                                                      ELSE selectedPoints \cup {pointIri}
  /\ UNCHANGED <<diagrams, diagramData, uuid, status, tasks, selectedGluePoint,
                 interactionState, canvas, failures, ops, last>>

V_CreateGluePoint(t, pointIris) ==
  /\ Call(t, "createGluePoint", Args(pointIris, 0, NoGlue), V_createGluePoint(Machine, pointIris))
  /\ UNCHANGED <<selectedPoints, failures>>

V_AddPointToGluePoint(t, pointIri, gluePointIri) ==
  /\ Call(t, "addPointToGluePoint", Args(<<>>, pointIri, gluePointIri),
          V_addPointToGluePoint(Machine, pointIri, gluePointIri))
  /\ UNCHANGED <<selectedPoints, failures>>

V_RemovePointFromGluePoint(t, pointIri, gluePointIri) ==
  /\ Call(t, "removePointFromGluePoint", Args(<<>>, pointIri, gluePointIri),
          V_removePointFromGluePoint(Machine, pointIri, gluePointIri))
  /\ UNCHANGED <<selectedPoints, failures>>

V_CreateGluePointFromSelectedPoints(t) ==
  /\ \E selected \in Orders(selectedPoints) :
       Call(t, "createGluePointFromSelectedPoints", NoArgs,
            V_createGluePointFromSelectedPoints(Machine, selected))
  /\ UNCHANGED <<selectedPoints, failures>>

\* the service called with arguments of the caller's choosing
NextV ==
  \E t \in Tasks :
    \/ \E pointIris \in PointIrisInputs : V_CreateGluePoint(t, pointIris)
    \/ \E g \in GlueIris : RemoveGluePoint(t, g)
    \/ \E p \in Points, g \in GlueIris : V_AddPointToGluePoint(t, p, g)
    \/ \E p \in Points, g \in GlueIris : V_RemovePointFromGluePoint(t, p, g)
    \/ UpdateSucceeds(t)
    \/ UpdateFails(t)
    \/ ReloadCompletes(t)

SpecV == Init /\ [][NextV]_vars

\* the same service on a diagram loaded as the remote store held it
SpecVAny == InitAny /\ [][NextV]_vars

\* the glue checkbox: points are selected, then glued, a glue point is removed
NextSel ==
  \/ \E p \in Points : TogglePointSelection(p)
  \/ \E t \in Tasks :
       \/ V_CreateGluePointFromSelectedPoints(t)
       \/ \E g \in GlueIris : RemoveGluePoint(t, g)
       \/ UpdateSucceeds(t)
       \/ UpdateFails(t)
       \/ ReloadCompletes(t)

SpecSel == Init /\ [][NextSel]_vars

\* ------------------------------------------- moving the selection by arrow keys
ArrowKeys == {"ArrowUp", "ArrowDown", "ArrowLeft", "ArrowRight"}
Modifiers == {"shift", "alt", "none"}

\* handleObjectMovement: the move distance for the modifier held
moveDistance(modifier) ==
  IF modifier = "shift" THEN GridSize * 10 ELSE IF modifier = "alt" THEN 1 ELSE GridSize

\* handleObjectMovement: the delta vector for the key pressed
deltaVector(key, modifier) ==
  CASE key = "ArrowUp"    -> [dx |-> 0, dy |-> 0 - moveDistance(modifier)]
    [] key = "ArrowDown"  -> [dx |-> 0, dy |-> moveDistance(modifier)]
    [] key = "ArrowLeft"  -> [dx |-> 0 - moveDistance(modifier), dy |-> 0]
    [] key = "ArrowRight" -> [dx |-> moveDistance(modifier), dy |-> 0]

\* handleObjectMovement, "Move points locally first": the points of the diagram
\* whose iri is selected get x += dx, y += dy (and a variant in which a moved
\* point is dropped from the pointToGluePointMap index)
MoveLocally_Unglues(D, selectedPointIris, dx, dy) ==
  [D EXCEPT !.x = [p \in DOMAIN D.x |-> IF p \in selectedPointIris THEN D.x[p] + dx ELSE D.x[p]],
            !.y = [p \in DOMAIN D.y |-> IF p \in selectedPointIris THEN D.y[p] + dy ELSE D.y[p]],
            !.pointToGluePointMap =
               [p \in DOMAIN D.pointToGluePointMap \ selectedPointIris |->
                  D.pointToGluePointMap[p]]]
MoveLocally(D, selectedPointIris, dx, dy) ==
  [D EXCEPT !.x = [p \in DOMAIN D.x |-> IF p \in selectedPointIris THEN D.x[p] + dx ELSE D.x[p]],
            !.y = [p \in DOMAIN D.y |-> IF p \in selectedPointIris THEN D.y[p] + dy ELSE D.y[p]]]

\* PointService.updatePointPositions, to its await: the points sent are the given
\* ones and their glued points; the diagram is not touched
updatePointPositions(M, pointIris, dx, dy) ==
  IF pointIris = {} THEN Ret(M, "false")
  ELSE Suspend(SetStatus(M, "Updating point positions..."),
               UpdateFrame("updatePointPositions", M.diagramData,
                  MoveQuery(pointIris \cup UNION {DM_getGluedPoints(CurD(M), p) : p \in pointIris},
                            dx, dy),
                  NoGlue, FALSE))

\* Ctrl + arrow key: handleObjectMovement moves the selected points, sets the
\* store, and fires positionUpdateEvent, whose subscriber calls
\* updatePointPositions with the same moveData
HandleObjectMovement(t, key, modifier) ==
  /\ selectedPoints # {}
  /\ ops < MaxMoves
  /\ LET d == deltaVector(key, modifier) IN
       Call(t, "handleObjectMovement",
            [NoArgs EXCEPT !.sel = selectedPoints, !.dx = d.dx, !.dy = d.dy],
            updatePointPositions(
               SetCurD(Machine, MoveLocally(CurD(Machine), selectedPoints, d.dx, d.dy)),
               selectedPoints, d.dx, d.dy))
  /\ UNCHANGED <<selectedPoints, failures>>

NextMove ==
  \/ \E p \in Points : TogglePointSelection(p)
  \/ \E t \in Tasks :
       \/ \E key \in ArrowKeys, modifier \in Modifiers : HandleObjectMovement(t, key, modifier)
       \/ UpdateSucceeds(t)
       \/ UpdateFails(t)
       \/ ReloadCompletes(t)

SpecMove == Init /\ [][NextMove]_vars

\* ------------------------------------- the rotation and mirroring buttons
\* one transformation is run, on coordinates whose mean is whole
RotateSelectedPoints(t, degrees) ==
  /\ ops < MaxMoves
  /\ CenterIsWhole(CurD(Machine), SelectSeq(CurD(Machine).points, LAMBDA p : p \in selectedPoints))
  /\ Call(t, "rotateSelectedPoints", [NoArgs EXCEPT !.sel = selectedPoints, !.deg = degrees],
          rotateSelectedPoints(Machine, selectedPoints, degrees))
  /\ UNCHANGED <<selectedPoints, failures>>

MirrorSelectedPointsHorizontally(t) ==
  /\ ops < MaxMoves
  /\ CenterIsWhole(CurD(Machine), SelectSeq(CurD(Machine).points, LAMBDA p : p \in selectedPoints))
  /\ Call(t, "mirrorSelectedPointsHorizontally", [NoArgs EXCEPT !.sel = selectedPoints],
          mirrorSelectedPointsHorizontally(Machine, selectedPoints))
  /\ UNCHANGED <<selectedPoints, failures>>

MirrorSelectedPointsVertically(t) ==
  /\ ops < MaxMoves
  /\ CenterIsWhole(CurD(Machine), SelectSeq(CurD(Machine).points, LAMBDA p : p \in selectedPoints))
  /\ Call(t, "mirrorSelectedPointsVertically", [NoArgs EXCEPT !.sel = selectedPoints],
          mirrorSelectedPointsVertically(Machine, selectedPoints))
  /\ UNCHANGED <<selectedPoints, failures>>

NextTransform ==
  \/ \E p \in Points : TogglePointSelection(p)
  \/ \E t \in Tasks :
       \/ \E degrees \in Rotations : RotateSelectedPoints(t, degrees)
       \/ MirrorSelectedPointsHorizontally(t)
       \/ MirrorSelectedPointsVertically(t)
       \/ UpdateSucceeds(t)
       \/ UpdateFails(t)
       \/ ReloadCompletes(t)

SpecTransform == Init /\ [][NextTransform]_vars

\* --------------------------------------------------------- pointer events
\* PointModel.distanceSquaredTo
distanceSquaredTo(D, p, position) ==
  (D.x[p] - position.x) * (D.x[p] - position.x)
    + (D.y[p] - position.y) * (D.y[p] - position.y)

\* DiagramModel.findPointNear, the loop over this.points from index i on:
\* a point replaces closestPoint when it is closer than closestDistSq (and a
\* variant in which an equally close point replaces it too); 0 for null
RECURSIVE findPointNear_LastWins(_, _, _, _, _)
findPointNear_LastWins(D, position, i, closestPoint, closestDistSq) ==
  IF i > Len(D.points) THEN closestPoint
  ELSE LET distSq == distanceSquaredTo(D, D.points[i], position) IN
       IF distSq <= closestDistSq /\ (closestPoint # 0 \/ distSq < closestDistSq)
       THEN findPointNear_LastWins(D, position, i + 1, D.points[i], distSq)
       ELSE findPointNear_LastWins(D, position, i + 1, closestPoint, closestDistSq)

RECURSIVE findPointNearFrom(_, _, _, _, _)
findPointNearFrom(D, position, i, closestPoint, closestDistSq) ==
  IF i > Len(D.points) THEN closestPoint
  ELSE LET distSq == distanceSquaredTo(D, D.points[i], position) IN
       IF distSq < closestDistSq
       THEN findPointNearFrom(D, position, i + 1, D.points[i], distSq)
       ELSE findPointNearFrom(D, position, i + 1, closestPoint, closestDistSq)

\* DiagramModel.findPointNear: closestPoint = null, closestDistSq = radiusSquared
findPointNear(D, position, radius) == findPointNearFrom(D, position, 1, 0, radius * radius)

\* pointToLineDistanceSquared(point, a, b).distanceSquared: the squared
\* distance from point to the segment a-b, as the fraction num / den
pointToLineDistanceSquared(point, a, b) ==
  LET lenSq == (b.x - a.x) * (b.x - a.x) + (b.y - a.y) * (b.y - a.y)
      dot == (point.x - a.x) * (b.x - a.x) + (point.y - a.y) * (b.y - a.y)
      cross == (b.x - a.x) * (point.y - a.y) - (b.y - a.y) * (point.x - a.x)
      toA == (point.x - a.x) * (point.x - a.x) + (point.y - a.y) * (point.y - a.y)
      toB == (point.x - b.x) * (point.x - b.x) + (point.y - b.y) * (point.y - b.y)
  IN IF lenSq = 0 \/ dot <= 0 THEN [num |-> toA, den |-> 1]
     ELSE IF dot >= lenSq THEN [num |-> toB, den |-> 1]
     ELSE [num |-> cross * cross, den |-> lenSq]

\* d < e for fractions with positive denominators
Closer(d, e) == d.num * e.den < e.num * d.den

\* the glue connections findClosestGlueConnection looks at: the pairs of
\* points of one glue point that are both in diagram.points
GlueConnections(D) ==
  {c \in SUBSET SeqSet(D.points) :
     /\ Cardinality(c) = 2
     /\ \E g \in DOMAIN D.gluePoints : c \subseteq D.gluePoints[g]}

\* the squared distance from worldPos to the line of glue connection c
ConnectionDistance(D, worldPos, c) ==
  LET p1 == CHOOSE p \in c : \A q \in c : p <= q
      p2 == CHOOSE p \in c : \A q \in c : q <= p
  IN pointToLineDistanceSquared(worldPos, [x |-> D.x[p1], y |-> D.y[p1]],
                                          [x |-> D.x[p2], y |-> D.y[p2]])

\* findClosestGlueConnection: the connections it can return (none when the
\* set is empty): a connection whose squared distance is below threshold and
\* that no other connection is closer than. closestDistance starts at
\* threshold itself. Of several equally close ones the code takes the first in
\* the iteration order of the gluePoints map and the connectedPoints sets,
\* which the diagram record does not keep: each of them is possible.
findClosestGlueConnection(D, worldPos, threshold, showGluePoints) ==
  IF ~showGluePoints THEN {}
  ELSE {c \in GlueConnections(D) :
          /\ Closer(ConnectionDistance(D, worldPos, c), [num |-> threshold, den |-> 1])
          /\ \A e \in GlueConnections(D) :
               ~Closer(ConnectionDistance(D, worldPos, e), ConnectionDistance(D, worldPos, c))}

\* startSelecting, startDragging, startPanning of InteractionState (and a
\* variant of startSelecting that does not record where the rectangle begins)
startSelecting_NoAnchor(worldPos) == [NoInteraction EXCEPT !.mode = "SELECTING"]
startSelecting(worldPos) ==
  [mode |-> "SELECTING", start |-> worldPos, current |-> worldPos, altKey |-> FALSE]
startDragging(worldPos, altKey) ==
  [mode |-> "DRAGGING", start |-> worldPos, current |-> worldPos, altKey |-> altKey]
\* panning keeps what the interrupted mode recorded
startPanning(I) == [I EXCEPT !.mode = "PANNING"]

\* the selection after a pointer-down without Ctrl while points are selected:
\* kept when a selected point was hit (dragging starts), and also when some
\* other point was hit; cleared (clearSelection) only when no point was hit
SelectionAfterPlainClick(selected, clickedPoint) ==
  IF clickedPoint # 0 /\ clickedPoint \in selected THEN selected
  ELSE IF clickedPoint = 0 THEN {}
  ELSE selected

\* the world positions of pointer events: beside a loaded point, half way
\* between two neighbours, and away from all
ClickPositions ==
  {[x |-> CoordUnit * p + ClickOffset, y |-> CoordUnit * parentObject(p)] : p \in Points}
    \cup {[x |-> (CoordUnit * (2 * p + 1)) \div 2,
           y |-> (CoordUnit * (parentObject(p) + parentObject(p + 1))) \div 2] :
             p \in Points \ {NPoints}}
    \cup {[x |-> 0, y |-> 0]}

\* handleMouseDown. isTooltipPinned, isTooltipHovered and showGluePoints are
\* the values of these stores when the event arrives (the tooltip can be
\* hovered or not when it is pinned and shown); worldPos is screenToWorld of the
\* event's position; hideTooltip takes the tooltip away.
HandleMouseDown(ctrlKey, altKey, worldPos, isTooltipPinned, showGluePoints) ==
  \E isTooltipHovered \in
       (IF isTooltipPinned /\ canvas.tooltipPoint # 0 THEN BOOLEAN ELSE {FALSE}) :
  LET diagram == CurD(Machine)
      clickedPoint == findPointNear(diagram, worldPos, SelectionRadius)
      glueConnections ==
        findClosestGlueConnection(diagram, worldPos, SelectionRadius * 2, showGluePoints)
  IN
  /\ canvas' = [canvas EXCEPT
                  !.tooltipPoint = IF isTooltipPinned /\ isTooltipHovered THEN @ ELSE 0,
                  !.held.button = TRUE, !.held.clean = FALSE]
  /\ IF isTooltipPinned
     THEN UNCHANGED <<selectedPoints, selectedGluePoint, interactionState>>
     ELSE IF ctrlKey
     THEN /\ IF clickedPoint # 0
             THEN /\ selectedPoints' =
                       IF clickedPoint \in selectedPoints
                       THEN selectedPoints \ {clickedPoint}
                       ELSE selectedPoints \cup {clickedPoint}
                  /\ UNCHANGED interactionState
             ELSE IF glueConnections # {}
             THEN /\ \E glueConnection \in glueConnections :
                       selectedPoints' = selectedPoints \cup glueConnection
                  /\ UNCHANGED interactionState
             ELSE /\ interactionState' = startSelecting(worldPos)
                  /\ UNCHANGED selectedPoints
          /\ UNCHANGED selectedGluePoint
     ELSE IF selectedPoints # {}
     THEN /\ selectedPoints' = SelectionAfterPlainClick(selectedPoints, clickedPoint)
          /\ interactionState' =
               IF clickedPoint # 0 /\ clickedPoint \in selectedPoints
               THEN startDragging(worldPos, altKey) ELSE startPanning(interactionState)
          /\ selectedGluePoint' = IF clickedPoint = 0 THEN NoGlue ELSE selectedGluePoint
     ELSE /\ selectedGluePoint' = NoGlue
          /\ interactionState' = startPanning(interactionState)
          /\ UNCHANGED selectedPoints
  /\ last' = Event("handleMouseDown", "return",
                   IF isTooltipPinned THEN [NoArgs EXCEPT !.pinned = TRUE]
                   ELSE [NoArgs EXCEPT !.pos = worldPos, !.ctrlKey = ctrlKey,
                                       !.altKey = altKey, !.p = clickedPoint,
                                       !.sel = selectedPoints,
                                       !.showGluePoints =
                                          ctrlKey /\ clickedPoint = 0 /\ showGluePoints],
                   diagram, "true", 0, NoQuery, TRUE, \A v \in Tasks : ~Active(v), JustReturned)
  /\ UNCHANGED <<diagrams, diagramData, uuid, status, tasks, failures, ops>>

\* pointer-downs on the canvas; with the tooltip pinned the handler returns
\* before it reads the event, with Ctrl it reads showGluePoints and not altKey,
\* without Ctrl altKey and not showGluePoints
NextMouse ==
  \/ \E showGluePoints \in BOOLEAN, worldPos \in ClickPositions :
       HandleMouseDown(TRUE, FALSE, worldPos, FALSE, showGluePoints)
  \/ \E altKey \in BOOLEAN, worldPos \in ClickPositions :
       HandleMouseDown(FALSE, altKey, worldPos, FALSE, FALSE)
  \/ HandleMouseDown(FALSE, FALSE, [x |-> 0, y |-> 0], TRUE, FALSE)

\* the diagrams pointer events are tried on: those loaded with glue points
MouseDiagrams == {D \in LoadedDiagrams : Cardinality(DOMAIN D.gluePoints) = MaxLoadedGlue}

\* a diagram has been loaded; one of its glue points may be the selected one
InitMouse ==
  \E D \in MouseDiagrams : \E g \in {NoGlue} \cup DOMAIN D.gluePoints :
    /\ diagrams = [h \in 1..(2 * MaxTasks + 2) |-> IF h = 1 THEN D ELSE NullDiagram]
    /\ diagramData = 1
    /\ uuid = Cardinality(DOMAIN D.gluePoints) + 1
    /\ status = ""
    /\ tasks = [t \in 1..MaxTasks |-> Idle]
    /\ selectedPoints = {}
    /\ selectedGluePoint = g
    /\ interactionState = NoInteraction
    /\ canvas = NoCanvas
    /\ failures = 0
    /\ ops = 0
    /\ last = Event("load", "return", NoArgs, NullDiagram, "true", 0, NoQuery, TRUE, TRUE, NoPrev)

SpecMouse == InitMouse /\ [][NextMouse]_vars

\* --------------------------------- double clicks: inserting and deleting points
\* a double click near a segment of object: handleDoubleClick calls
\* addNewPointToLine with what findClosestLineSegment found
AddNewPointToLine(t, object, position, insertIndex) ==
  /\ CallWithin(MaxEdits, t, "addNewPointToLine",
                [NoArgs EXCEPT !.obj = object, !.idx = insertIndex, !.p = NPoints + uuid],
                addNewPointToLine(Machine, object, position, insertIndex))
  /\ UNCHANGED <<selectedPoints, failures>>

\* a double click on a point: handleDoubleClick calls deletePointFromLine with
\* the point findPointNear found in diagram.points
DeletePointFromLine(t, point) ==
  /\ point \in SeqSet(CurD(Machine).points)
  /\ CallWithin(MaxEdits, t, "deletePointFromLine",
                [NoArgs EXCEPT !.p = point, !.obj = CurD(Machine).parent[point]],
                deletePointFromLine(Machine, point))
  /\ UNCHANGED <<selectedPoints, failures>>

\* the points a run can hold: the loaded ones and those inserted
EditPoints == 1..(NPoints + MaxLoadedGlue + MaxEdits)

\* a diagram without glue points has been loaded
PlainDiagram == fromSparqlResults([p \in Points |-> 0])

\* double clicks whose updates all succeed, up to MaxEditTasks of them in flight
NextEdit ==
  \E t \in Tasks :
    \/ \E object \in Objects, position \in InsertPositions :
         \E insertIndex \in 0..Len(CurD(Machine).objects[object].points) :
           AddNewPointToLine(t, object, position, insertIndex)
    \/ \E point \in EditPoints : DeletePointFromLine(t, point)
    \/ UpdateSucceeds(t)

InitEdit == InitTasks(PlainDiagram, MaxEditTasks)
SpecEdit == InitEdit /\ [][NextEdit]_vars

\* double clicks one after the other, whose updates may fail
NextEditFail ==
  \E t \in Tasks :
    \/ \E object \in Objects, position \in InsertPositions :
         \E insertIndex \in 0..Len(CurD(Machine).objects[object].points) :
           AddNewPointToLine(t, object, position, insertIndex)
    \/ \E point \in EditPoints : DeletePointFromLine(t, point)
    \/ UpdateSucceeds(t)
    \/ UpdateFails(t)
    \/ ReloadCompletes(t)

SpecEditFail == InitWith(PlainDiagram) /\ [][NextEditFail]_vars

\* double clicks on points, up to MaxEditTasks deletions in flight, whose
\* updates may fail
NextDeleteRace ==
  \E t \in Tasks :
    \/ \E point \in EditPoints : DeletePointFromLine(t, point)
    \/ UpdateSucceeds(t)
    \/ UpdateFails(t)
    \/ ReloadCompletes(t)

InitDeleteRace == \E D \in LoadedDiagrams : InitTasks(D, MaxEditTasks)
SpecDeleteRace == InitDeleteRace /\ [][NextDeleteRace]_vars


\* =================================================================== claims
\* The diagram the store holds
Cur == CurD(Machine)

\* a glue point of diagram D with at least 2 points of at least 2 objects
GluePointValid(D, g) ==
  /\ Cardinality(D.gluePoints[g]) >= 2
  /\ arePointsFromDifferentObjects(D.gluePoints[g])

\* index and membership of diagram D agree
IndexConsistent(D) ==
  /\ \A g \in DOMAIN D.gluePoints : \A p \in D.gluePoints[g] :
        p \in DOMAIN D.pointToGluePointMap /\ D.pointToGluePointMap[p] = g
  /\ \A p \in DOMAIN D.pointToGluePointMap :
        /\ D.pointToGluePointMap[p] \in DOMAIN D.gluePoints
        /\ p \in D.gluePoints[D.pointToGluePointMap[p]]

\* the last event is operation op having run to its first await (its local
\* mutation is done, its update is in flight)
Called(op) == last.op = op /\ last.phase = "call"
\* the last event is operation op returning res, every update of it having
\* succeeded and no other operation having run meanwhile
Returned(op, res) ==
  last.op = op /\ last.phase = "return" /\ last.res = res /\ last.allOk /\ last.solo

\* C1: in every reachable state, also while an operation awaits persistence,
\* every glue point of the diagram has at least 2 member points and its
\* members belong to at least 2 distinct diagram objects.
C1_EveryGluePointValid ==
  \A g \in DOMAIN Cur.gluePoints : GluePointValid(Cur, g)

\* C2: in every reachable state, every member p of every glue point g has
\* pointToGluePointMap[p] = g, and every key of pointToGluePointMap maps to
\* an existing glue point that contains it.
C2_IndexMatchesMembership == IndexConsistent(Cur)

\* ---- removePointFromGluePoint(p, g) of part_003, p a member of existing g
RemovePointCase ==
  /\ last.op = "removePointFromGluePoint"
  /\ last.a.g \in DOMAIN last.pre.gluePoints
  /\ last.a.p \in last.pre.gluePoints[last.a.g]
  /\ (Called("removePointFromGluePoint") \/ Returned("removePointFromGluePoint", "true"))

\* the members that remain would make an invalid glue point
RemainderInvalid(D, p, g) ==
  \/ Cardinality(D.gluePoints[g] \ {p}) < 2
  \/ ~arePointsFromDifferentObjects(D.gluePoints[g] \ {p})

\* C3: removePointFromGluePoint(p, g) with p a member of existing g: if the
\* remaining members are fewer than 2 or all of one object, g is gone and no
\* former member has an index entry; otherwise g exists with its former
\* members minus p, p has no index entry, and the index entry of every other
\* member that named g still names g. Stated of the diagram right after the
\* local mutation and of the diagram after the successful return.
C3_RemovePointCascades ==
  RemovePointCase =>
    LET p == last.a.p
        g == last.a.g
        pre == last.pre
    IN IF RemainderInvalid(pre, p, g)
       THEN /\ g \notin DOMAIN Cur.gluePoints
            /\ \A q \in pre.gluePoints[g] : q \notin DOMAIN Cur.pointToGluePointMap
       ELSE /\ g \in DOMAIN Cur.gluePoints
            /\ Cur.gluePoints[g] = pre.gluePoints[g] \ {p}
            /\ p \notin DOMAIN Cur.pointToGluePointMap
            /\ \A q \in pre.gluePoints[g] \ {p} :
                  (q \in DOMAIN pre.pointToGluePointMap /\ pre.pointToGluePointMap[q] = g)
                  => (q \in DOMAIN Cur.pointToGluePointMap /\ Cur.pointToGluePointMap[q] = g)

\* C3 witness: a point was removed from a glue point of 3, the 2 left were of
\* one object, and the operation returned true with the glue point gone
C3_Witness ==
  /\ RemovePointCase
  /\ Returned("removePointFromGluePoint", "true")
  /\ Cardinality(last.pre.gluePoints[last.a.g] \ {last.a.p}) >= 2
  /\ ~arePointsFromDifferentObjects(last.pre.gluePoints[last.a.g] \ {last.a.p})
  /\ last.a.g \notin DOMAIN Cur.gluePoints

\* ---- createGluePoint(pointIris)
CreateInvalidCase ==
  /\ last.op = "createGluePoint"
  /\ \/ Len(last.a.pts) < 2
     \/ ~arePointsFromDifferentObjects(SeqSet(last.a.pts))

\* C4: createGluePoint with fewer than 2 ids, or with points all of one
\* object, returns null at once: no glue point added, pointToGluePointMap
\* unchanged, no update issued.
C4_CreateRejectsInvalid ==
  CreateInvalidCase =>
    /\ last.phase = "return"
    /\ last.res = "null"
    /\ last.issued = 0
    /\ Cur.gluePoints = last.pre.gluePoints
    /\ Cur.pointToGluePointMap = last.pre.pointToGluePointMap

\* ---- addPointToGluePoint(p, g) of part_003
AddRejectCase ==
  /\ last.op = "addPointToGluePoint"
  /\ \/ last.a.g \notin DOMAIN last.pre.gluePoints
     \/ last.a.p \in last.pre.gluePoints[last.a.g]
     \/ ~arePointsFromDifferentObjects(last.pre.gluePoints[last.a.g] \cup {last.a.p})

\* C5: addPointToGluePoint(p, g) returns false at once, the glue points and
\* the index unchanged and no update issued, when g does not exist, p is
\* already in g, or g with p would not span 2 objects; otherwise, right after
\* the local mutation and after the successful return, p is in g and
\* pointToGluePointMap[p] = g.
C5_AddPointRejectsOrAdds ==
  last.op = "addPointToGluePoint" =>
    IF AddRejectCase
    THEN /\ last.phase = "return"
         /\ last.res = "false"
         /\ last.issued = 0
         /\ Cur.gluePoints = last.pre.gluePoints
         /\ Cur.pointToGluePointMap = last.pre.pointToGluePointMap
    ELSE (Called("addPointToGluePoint") \/ Returned("addPointToGluePoint", "true")) =>
         /\ last.a.g \in DOMAIN Cur.gluePoints
         /\ last.a.p \in Cur.gluePoints[last.a.g]
         /\ last.a.p \in DOMAIN Cur.pointToGluePointMap
         /\ Cur.pointToGluePointMap[last.a.p] = last.a.g

\* C5 witness: a point not yet in an existing glue point was refused because
\* the glue point would still have had points of one object only
C5_Witness ==
  /\ AddRejectCase
  /\ last.a.g \in DOMAIN last.pre.gluePoints
  /\ last.a.p \notin last.pre.gluePoints[last.a.g]
  /\ last.phase = "return"
  /\ last.res = "false"

\* ---- toggleConnection([a, b]) of GluePointService.ts
\* toggleConnection was called with two points and has returned, every update
\* of it having succeeded and no other operation having run meanwhile
ToggleDone ==
  /\ last.op = "toggleConnection"
  /\ last.phase = "return"
  /\ last.allOk
  /\ last.solo
  /\ Len(last.a.pts) = 2
PointA == last.a.pts[1]
PointB == last.a.pts[2]
\* the glue points of a and b when toggleConnection was called
GlueA == DM_getGluePointForPoint(last.pre, PointA)
GlueB == DM_getGluePointForPoint(last.pre, PointB)
\* the glue points other than those in S are as they were
OthersUnchanged(S) ==
  \A g \in (DOMAIN last.pre.gluePoints) \ S :
    g \in DOMAIN Cur.gluePoints /\ Cur.gluePoints[g] = last.pre.gluePoints[g]
\* the two glue points of the call have become one
Merged ==
  /\ DOMAIN Cur.gluePoints = (DOMAIN last.pre.gluePoints) \ {GlueB}
  /\ Cur.gluePoints[GlueA] = last.pre.gluePoints[GlueA] \cup last.pre.gluePoints[GlueB]

\* C6: after mergeGluePoints(idA, idB) on two distinct existing glue points
\* (toggleConnection of a point of each), every update succeeding, idA's
\* members are the union of the former members of both, idB does not exist,
\* and every other glue point is as it was.
C6_MergeIsUnion ==
  (ToggleDone /\ last.res = "true" /\ GlueA # NoGlue /\ GlueB # NoGlue /\ GlueA # GlueB) =>
    /\ GlueA \in DOMAIN Cur.gluePoints
    /\ Cur.gluePoints[GlueA] = last.pre.gluePoints[GlueA] \cup last.pre.gluePoints[GlueB]
    /\ GlueB \notin DOMAIN Cur.gluePoints
    /\ OthersUnchanged({GlueA, GlueB})
    /\ DOMAIN Cur.gluePoints \subseteq DOMAIN last.pre.gluePoints

\* C6 witness: two glue points of 2 points each were merged into one of 4
C6_Witness ==
  /\ ToggleDone /\ last.res = "true"
  /\ GlueA # NoGlue /\ GlueB # NoGlue /\ GlueA # GlueB
  /\ Cardinality(last.pre.gluePoints[GlueA]) = 2
  /\ Cardinality(last.pre.gluePoints[GlueB]) = 2
  /\ Cardinality(Cur.gluePoints[GlueA]) = 4

\* C7: toggleConnection([a, b]) on two points that do not share a glue point,
\* once returned: neither glued - exactly one glue point is new, its members
\* are {a, b}; exactly one glued - the other point has been added to that
\* glue point, no glue point is new or gone; both glued - the two glue points
\* have become one.
C7_ToggleNotShared ==
  (ToggleDone /\ ~(GlueA # NoGlue /\ GlueA = GlueB)) =>
    IF GlueA = NoGlue /\ GlueB = NoGlue
    THEN /\ \E n \in DOMAIN Cur.gluePoints :
              /\ DOMAIN Cur.gluePoints = (DOMAIN last.pre.gluePoints) \cup {n}
              /\ n \notin DOMAIN last.pre.gluePoints
              /\ Cur.gluePoints[n] = {PointA, PointB}
         /\ OthersUnchanged({})
    ELSE IF GlueB = NoGlue
    THEN /\ DOMAIN Cur.gluePoints = DOMAIN last.pre.gluePoints
         /\ Cur.gluePoints[GlueA] = last.pre.gluePoints[GlueA] \cup {PointB}
         /\ OthersUnchanged({GlueA})
    ELSE IF GlueA = NoGlue
    THEN /\ DOMAIN Cur.gluePoints = DOMAIN last.pre.gluePoints
         /\ Cur.gluePoints[GlueB] = last.pre.gluePoints[GlueB] \cup {PointA}
         /\ OthersUnchanged({GlueB})
    ELSE Merged /\ OthersUnchanged({GlueA, GlueB})

\* C7 witness: only b was glued, and a has been added to b's glue point
C7_Witness ==
  /\ ToggleDone /\ last.res = "true"
  /\ GlueA = NoGlue /\ GlueB # NoGlue
  /\ PointA \notin last.pre.gluePoints[GlueB]
  /\ PointA \in Cur.gluePoints[GlueB]

\* C8: toggleConnection([a, b]) with a and b in the same glue point g, once
\* returned true: a has no glue point, and either g exists, is valid and has
\* every other former member, or g is gone and no former member has an
\* index entry.
C8_ToggleSharedCascades ==
  (ToggleDone /\ last.res = "true" /\ GlueA # NoGlue /\ GlueA = GlueB) =>
    /\ DM_getGluePointForPoint(Cur, PointA) = NoGlue
    /\ \/ /\ GlueA \in DOMAIN Cur.gluePoints
          /\ GluePointValid(Cur, GlueA)
          /\ (last.pre.gluePoints[GlueA] \ {PointA}) \subseteq Cur.gluePoints[GlueA]
       \/ /\ GlueA \notin DOMAIN Cur.gluePoints
          /\ \A q \in last.pre.gluePoints[GlueA] : q \notin DOMAIN Cur.pointToGluePointMap

\* ---- toggleConnection([a, b]) twice
\* the partition of the points into glue groups
Connectivity(D) == {D.gluePoints[g] : g \in DOMAIN D.gluePoints}
\* a diagram whose glue points are valid and whose index matches them
ValidGlueState(D) ==
  /\ \A g \in DOMAIN D.gluePoints : GluePointValid(D, g)
  /\ IndexConsistent(D)
\* toggleConnection([a, b]) has returned for the second time in immediate
\* succession, a and b of different objects, the start state valid, every
\* update of both calls having succeeded
ToggledTwice ==
  /\ ToggleDone
  /\ last.prev.op = "toggleConnection"
  /\ last.prev.a = last.a
  /\ parentObject(PointA) # parentObject(PointB)
  /\ ValidGlueState(last.prev.pre)
\* glue points of a and b at the start
StartGlueA == DM_getGluePointForPoint(last.prev.pre, PointA)
StartGlueB == DM_getGluePointForPoint(last.prev.pre, PointB)

\* C9 as stated: after toggleConnection([a, b]) twice the partition of the
\* points into glue groups equals that of the start state.
C9_DoubleToggleRestores ==
  ToggledTwice => Connectivity(Cur) = Connectivity(last.prev.pre)

\* at the start a had no glue point, or a and b shared a glue point that was
\* the pair or stays valid without a
FirstFreeOrShared ==
  \/ StartGlueA = NoGlue
  \/ /\ StartGlueA = StartGlueB
     /\ \/ last.prev.pre.gluePoints[StartGlueA] = {PointA, PointB}
        \/ ~RemainderInvalid(last.prev.pre, PointA, StartGlueA)

\* C9 amended: after toggleConnection([a, b]) twice the partition equals that
\* of the start state if at the start a had no glue point, or a and b shared
\* a glue point that was the pair {a, b} or that stays valid without a.
C9_DoubleToggleRestoresIfFirstFreeOrShared ==
  (ToggledTwice /\ FirstFreeOrShared) =>
    Connectivity(Cur) = Connectivity(last.prev.pre)

\* C9 witness: a and b shared a glue point of more than 2 points, a was
\* removed by the first call and added again by the second
C9_Witness ==
  /\ ToggledTwice
  /\ StartGlueA # NoGlue /\ StartGlueA = StartGlueB
  /\ Cardinality(last.prev.pre.gluePoints[StartGlueA]) > 2
  /\ ~RemainderInvalid(last.prev.pre, PointA, StartGlueA)
  /\ PointA \notin last.pre.gluePoints[StartGlueA]
  /\ PointA \in Cur.gluePoints[StartGlueA]

\* ---- moving the selected points by (dx, dy)
\* the given points and the points getGluedPoints returns for them
MoveTargets(D, pointIris) ==
  pointIris \cup UNION {DM_getGluedPoints(D, p) : p \in pointIris}

\* C10: an arrow-key move of the selected points by (dx, dy) has moved, in the
\* diagram the store holds, every selected point and every point glued to a
\* selected point by exactly (dx, dy), and no other point. Stated right after
\* the handler ran and after the update succeeded.
C10_TranslateMovesGluedPoints ==
  (Called("handleObjectMovement") \/ Returned("handleObjectMovement", "true")) =>
    \A p \in Points :
      IF p \in MoveTargets(last.pre, last.a.sel)
      THEN Cur.x[p] = last.pre.x[p] + last.a.dx /\ Cur.y[p] = last.pre.y[p] + last.a.dy
      ELSE Cur.x[p] = last.pre.x[p] /\ Cur.y[p] = last.pre.y[p]

\* --------------------------------------------------- rotation and mirroring
Transforms ==
  {"rotateSelectedPoints", "mirrorSelectedPointsHorizontally", "mirrorSelectedPointsVertically"}

\* the points the last operation found selected in the diagram it was called on
SelectedBefore == SelectSeq(last.pre.points, LAMBDA p : p \in last.a.sel)

\* the last operation is a transformation of a selection that names points of
\* the diagram, no update of it has failed, and it has just made its change or
\* no other operation has run since it was called
TransformCase ==
  /\ last.op \in Transforms /\ SelectedBefore # <<>> /\ last.allOk
  /\ (last.phase = "call" \/ last.solo)

\* point p now lies where the transformation about the mean of the selected
\* points puts it (both sides multiplied by the number of selected points)
TransformedAboutMean(p) ==
  LET n == Len(SelectedBefore)
      sumX == SumCoord(last.pre.x, SelectedBefore)
      sumY == SumCoord(last.pre.y, SelectedBefore)
  IN CASE last.op = "mirrorSelectedPointsHorizontally" ->
            n * (Cur.x[p] + last.pre.x[p]) = 2 * sumX /\ Cur.y[p] = last.pre.y[p]
       [] last.op = "mirrorSelectedPointsVertically" ->
            Cur.x[p] = last.pre.x[p] /\ n * (Cur.y[p] + last.pre.y[p]) = 2 * sumY
       [] last.op = "rotateSelectedPoints" /\ last.a.deg = 90 ->
            /\ n * Cur.x[p] = sumX - (n * last.pre.y[p] - sumY)
            /\ n * Cur.y[p] = sumY + (n * last.pre.x[p] - sumX)
       [] OTHER ->
            /\ n * Cur.x[p] = sumX + (n * last.pre.y[p] - sumY)
            /\ n * Cur.y[p] = sumY - (n * last.pre.x[p] - sumX)

\* C11: a rotation or mirroring moves each selected point about the mean of the
\* selected points and leaves every other point, glued to a selected one or
\* not, where it was; the update it sends names the selected points only
C11_TransformMovesSelectionOnly ==
  TransformCase =>
    /\ \A p \in DOMAIN Cur.x :
         IF p \in last.a.sel THEN TransformedAboutMean(p)
         ELSE Cur.x[p] = last.pre.x[p] /\ Cur.y[p] = last.pre.y[p]
    /\ last.phase = "call" => last.q.pts = last.a.sel

\* a rotation has returned that moved a selected point and whose selection
\* held a point glued to an unselected one
C11_Witness ==
  /\ TransformCase /\ last.op = "rotateSelectedPoints" /\ last.phase = "return"
  /\ \E p \in last.a.sel : Cur.x[p] # last.pre.x[p]
  /\ \E p \in last.a.sel : DM_getGluedPoints(last.pre, p) \ last.a.sel # {}

EditOps == {"addNewPointToLine", "deletePointFromLine"}

\* the last event belongs to an insertion or deletion that was not rejected:
\* its local change is done (it is awaiting an update, or has returned true)
EditDone(op) ==
  last.op = op /\ (last.phase \in {"call", "step"} \/ last.res = "true")

\* the points of object o of diagram D carry 0, 1, 2, ... in list order
Dense(D, o) ==
  \A i \in 1..Len(D.objects[o].points) : D.sequenceNumber[D.objects[o].points[i]] = i - 1

\* the points that are in both lists come in the same order in both
OrderKept(before, after) ==
  \A p, q \in SeqSet(before) \cap SeqSet(after) :
     findIndex(before, p) < findIndex(before, q) => findIndex(after, p) < findIndex(after, q)

\* C13: after addNewPointToLine or deletePointFromLine has changed an object
\* with n resulting points, the points of the object carry the sequence
\* numbers 0..n-1 in list order, and the points it had before keep their
\* relative order
C13_SequenceNumbersDense ==
  (EditDone("addNewPointToLine") \/ EditDone("deletePointFromLine")) =>
     /\ Dense(Cur, last.a.obj)
     /\ OrderKept(last.pre.objects[last.a.obj].points, Cur.objects[last.a.obj].points)

\* a deletion of an interior point has returned true, leaving at least 2
\* points, after a point had been inserted in front of another
C13_Witness ==
  /\ last.op = "deletePointFromLine" /\ last.phase = "return" /\ last.res = "true"
  /\ findIndex(last.pre.objects[last.a.obj].points, last.a.p) = 1
  /\ Len(Cur.objects[last.a.obj].points) >= 2
  /\ \E p \in SeqSet(Cur.objects[last.a.obj].points) : p > NPoints

\* a deletion was called on the first or last point of a line
EndpointCase ==
  /\ last.op = "deletePointFromLine"
  /\ ~last.pre.objects[last.a.obj].isPolygon
  /\ findIndex(last.pre.objects[last.a.obj].points, last.a.p)
       \in {0, Len(last.pre.objects[last.a.obj].points) - 1}

\* C14: deletePointFromLine on the first or last point of a line is rejected
\* (false returned, nothing changed, no update issued), and a deletion that is
\* called on a point of a line of at least 2 points leaves the line its first
\* and its last point
C14_LineKeepsEndpoints ==
  /\ EndpointCase =>
       /\ last.phase = "return" /\ last.res = "false" /\ last.issued = 0
       /\ Cur = last.pre
  /\ (last.op = "deletePointFromLine" /\ last.phase = "call"
      /\ ~last.pre.objects[last.a.obj].isPolygon
      /\ Len(last.pre.objects[last.a.obj].points) >= 2) =>
       /\ Cur.objects[last.a.obj].points # <<>>
       /\ Head(Cur.objects[last.a.obj].points) = Head(last.pre.objects[last.a.obj].points)
       /\ Cur.objects[last.a.obj].points[Len(Cur.objects[last.a.obj].points)] =
            last.pre.objects[last.a.obj].points[Len(last.pre.objects[last.a.obj].points)]

ContinuesAfterSuccess(t) ==
  /\ tasks[t].stack # <<>>
  /\ tasks[t].stack[Len(tasks[t].stack)].pc = "update"
  /\ ops' = ops /\ failures' = failures
  /\ tasks'[t] # tasks[t]

\* task t is at an await whose update fails in this step
FailsAtUpdate(t) ==
  /\ tasks[t].stack # <<>>
  /\ tasks[t].stack[Len(tasks[t].stack)].pc = "update"
  /\ failures' = failures + 1
  /\ tasks'[t] # tasks[t]

\* C16: when an update fails, the error is put in the status message and the
\* operation goes on to await reloadDiagram: the failed call is followed by a
\* reload
C16_FailureReportedAndReloaded ==
  [][\A t \in Tasks :
       FailsAtUpdate(t) =>
          /\ status' = "Error: update failed"
          /\ tasks'[t].stack # <<>>
          /\ tasks'[t].stack[Len(tasks'[t].stack)].pc = "reload"]_vars

\* the update of a rotation has failed: the error is in the status and
\* updatePointPositionsAbsolute awaits the reload
C16_Witness ==
  /\ tasks[1].stack # <<>>
  /\ tasks[1].op = "rotateSelectedPoints"
  /\ tasks[1].stack[Len(tasks[1].stack)].fn = "updatePointPositionsAbsolute"
  /\ tasks[1].stack[Len(tasks[1].stack)].pc = "reload"
  /\ status = "Error: update failed"

\* C17: the code that runs after an await of an operation has succeeded
\* changes no diagram: all of the operation's changes to the diagram were made
\* before its first update was issued
C17_NoMutationAfterAwait ==
  [][\A t \in Tasks :
       ContinuesAfterSuccess(t) =>
          \A h \in Refs(diagramData', tasks') : diagrams'[h] = diagrams[h]]_vars

\* C18: the code that runs after an await has succeeded leaves the store
\* holding the diagram it held, also when that diagram was loaded while the
\* operation was suspended
C18_ContinuationKeepsStore ==
  [][\A t \in Tasks : ContinuesAfterSuccess(t) => diagramData' = diagramData]_vars

\* the query task t awaits, and the one it awaits after this step ("none"
\* when it has returned or awaits the reload)
Awaited(t) == tasks[t].stack[Len(tasks[t].stack)].q.kind
AwaitedNext(t) ==
  IF tasks'[t].stack = <<>> THEN "none"
  ELSE IF tasks'[t].stack[Len(tasks'[t].stack)].pc # "update" THEN "none"
  ELSE tasks'[t].stack[Len(tasks'[t].stack)].q.kind

\* the deletion of task t took isPolygon from its object
FlagDropped(t) ==
  /\ tasks[t].pre.objects[tasks[t].a.obj].isPolygon
  /\ ~diagrams[tasks[t].stack[1].d].objects[tasks[t].a.obj].isPolygon

\* C19: addNewPointToLine issues the insert and, once that has succeeded, the
\* sequence numbers; deletePointFromLine issues the delete, once that has
\* succeeded the sequence numbers, and once those have succeeded the polygon
\* property if and only if the object lost isPolygon; an update that fails is
\* followed by no further update of the operation
C19_UpdatesInOrder ==
  /\ [](/\ (last.op = "addNewPointToLine" /\ last.phase = "call") => last.q.kind = "insertPoint"
        /\ (last.op = "deletePointFromLine" /\ last.phase = "call") => last.q.kind = "deletePoint")
  /\ [][\A t \in Tasks :
          /\ (ContinuesAfterSuccess(t) /\ tasks[t].op = "addNewPointToLine") =>
                AwaitedNext(t) = (IF Awaited(t) = "insertPoint" THEN "sequence" ELSE "none")
          /\ (ContinuesAfterSuccess(t) /\ tasks[t].op = "deletePointFromLine") =>
                AwaitedNext(t) =
                  (IF Awaited(t) = "deletePoint" THEN "sequence"
                   ELSE IF Awaited(t) = "sequence" /\ FlagDropped(t) THEN "polygon"
                   ELSE "none")
          /\ (tasks[t].stack # <<>> /\ tasks[t].op \in EditOps /\ ~tasks[t].allOk) =>
                AwaitedNext(t) = "none"
          /\ (FailsAtUpdate(t) /\ tasks[t].op \in EditOps) => AwaitedNext(t) = "none"]_vars

\* a deletion awaits the update of the polygon property
C19_Witness ==
  /\ tasks[1].stack # <<>>
  /\ tasks[1].op = "deletePointFromLine"
  /\ tasks[1].stack[1].q.kind = "polygon"
  /\ tasks[1].stack[1].pc = "update"

\* ------------------------------------------------------------ pointer-down
\* the last event is a pointer-down that handleMouseDown acted on
PointerDown == last.op = "handleMouseDown" /\ ~last.a.pinned

\* C20: pointer-down without Ctrl while points are selected: a hit on a
\* selected point enters DRAGGING with the selection unchanged; a miss, or a
\* hit on a point that is not selected, clears the selection and enters PANNING
C20_PlainPointerDown ==
  (PointerDown /\ ~last.a.ctrlKey /\ last.a.sel # {}) =>
     IF last.a.p # 0 /\ last.a.p \in last.a.sel
     THEN interactionState.mode = "DRAGGING" /\ selectedPoints = last.a.sel
     ELSE interactionState.mode = "PANNING" /\ selectedPoints = {}

\* the handler of the step is handleMouseDown, with Ctrl, and no tooltip pinned
CtrlPointerDownStep ==
  last'.op = "handleMouseDown" /\ ~last'.a.pinned /\ last'.a.ctrlKey

\* C21: pointer-down with Ctrl: on a point hit the membership of that point in
\* the selection is toggled, that of every other point is kept, and the
\* interaction state is left as it was; on a miss that is no glue-line hit
\* either, SELECTING starts at the world position of the click and the
\* selection is kept
C21_CtrlPointerDown ==
  [][/\ (CtrlPointerDownStep /\ last'.a.p # 0) =>
          /\ (last'.a.p \in selectedPoints') = (last'.a.p \notin selectedPoints)
          /\ selectedPoints' \ {last'.a.p} = selectedPoints \ {last'.a.p}
          /\ interactionState' = interactionState
     /\ (/\ CtrlPointerDownStep /\ last'.a.p = 0
         /\ findClosestGlueConnection(CurD(Machine), last'.a.pos, SelectionRadius * 2,
                                      last'.a.showGluePoints) = {}) =>
          /\ interactionState'.mode = "SELECTING"
          /\ interactionState'.start = last'.a.pos
          /\ selectedPoints' = selectedPoints]_vars

\* a Ctrl + pointer-down on a selected point has taken it out of a selection
\* of two, with no interaction going on
C21_Witness ==
  /\ PointerDown /\ last.a.ctrlKey /\ last.a.p # 0
  /\ last.a.p \in last.a.sel /\ selectedPoints = last.a.sel \ {last.a.p}
  /\ Cardinality(last.a.sel) = 2
  /\ interactionState.mode = "NONE"

\* C25: pointer-down with Ctrl, glue connections shown, no point hit, at a
\* position whose distance to the line of some glue connection is within the
\* point hit radius: both end points of a closest connection are then
\* selected, the points selected before still are, and the interaction state
\* is left as it was
C25_GlueLineHit ==
  [][(/\ CtrlPointerDownStep /\ last'.a.p = 0 /\ last'.a.showGluePoints
      /\ \E c \in GlueConnections(CurD(Machine)) :
            ~Closer([num |-> SelectionRadius * SelectionRadius, den |-> 1],
                    ConnectionDistance(CurD(Machine), last'.a.pos, c))) =>
        /\ \E c \in GlueConnections(CurD(Machine)) :
              /\ \A e \in GlueConnections(CurD(Machine)) :
                    ~Closer(ConnectionDistance(CurD(Machine), last'.a.pos, e),
                            ConnectionDistance(CurD(Machine), last'.a.pos, c))
              /\ selectedPoints' = selectedPoints \cup c
        /\ interactionState' = interactionState]_vars

\* ------------------- pointer moves, pointer-ups, the temporary-pan key, hover

\* InteractionState: a pointer-move while a rectangle is drawn sets its far corner
updateSelecting(I, worldPos) == [I EXCEPT !.current = worldPos]

\* the points whose coordinates fall inside the rectangle between two corners
PointsInRectangle(D, a, b) ==
  {p \in Points :
     /\ D.parent[p] # 0
     /\ (IF a.x <= b.x THEN a.x ELSE b.x) <= D.x[p] /\ D.x[p] <= (IF a.x <= b.x THEN b.x ELSE a.x)
     /\ (IF a.y <= b.y THEN a.y ELSE b.y) <= D.y[p] /\ D.y[p] <= (IF a.y <= b.y THEN b.y ELSE a.y)}

\* InteractionState: a pointer-move while dragging moves the dragged points by
\* the pointer's movement, in the local diagram only
updateDragging(M, dragged, worldPos, altKey) ==
  [SetCurD(M, MoveLocally(CurD(M), dragged,
                          worldPos.x - M.interactionState.current.x,
                          worldPos.y - M.interactionState.current.y))
     EXCEPT !.interactionState.current = worldPos, !.interactionState.altKey = altKey]

\* InteractionState: the viewport offset is not part of this model
updatePanning(M) == M

\* InteractionState: panning ends in mode NONE
endPanning(M) == [M EXCEPT !.interactionState.mode = "NONE"]

\* togglePanMode
togglePanMode(M, enabled) ==
  IF enabled
  THEN IF M.interactionState.mode # "PANNING"
       THEN [M EXCEPT !.canvas.tempPanData =
                         [previousMode |-> M.interactionState.mode, enabled |-> TRUE],
                      !.interactionState = IF M.canvas.lastMouseEvent THEN startPanning(@) ELSE @]
       ELSE M
  ELSE IF M.canvas.tempPanData.enabled
       THEN LET ended == endPanning(M) IN
            IF M.canvas.tempPanData.previousMode # "NONE"
            THEN [ended EXCEPT !.interactionState.mode = M.canvas.tempPanData.previousMode,
                               !.canvas.tempPanData = [previousMode |-> "NONE", enabled |-> FALSE]]
            ELSE [ended EXCEPT !.canvas.tempPanData.enabled = FALSE]
       ELSE M

\* checkForPointHover, with the values of the isTooltipPinned and
\* isTooltipHovered stores; the viewport scale is 1, so hoverRadius is the
\* selection threshold
checkForPointHover(M, worldPos, isTooltipPinned, isTooltipHovered) ==
  IF isTooltipPinned \/ isTooltipHovered THEN M
  ELSE IF M.interactionState.mode # "NONE" THEN M
  ELSE LET pointUnderCursor == findPointNear(CurD(M), worldPos, SelectionRadius) IN
       IF pointUnderCursor # 0 /\ pointUnderCursor # M.canvas.lastHoveredPoint
       THEN [M EXCEPT !.canvas.lastHoveredPoint = pointUnderCursor,
                      !.canvas.tooltipPoint = pointUnderCursor]
       ELSE IF pointUnderCursor = 0 /\ M.canvas.lastHoveredPoint # 0
       THEN [M EXCEPT !.canvas.lastHoveredPoint = 0, !.canvas.tooltipPoint = 0]
       ELSE M

\* requestAnimationFrame: the callback is queued for the next frame. A callback
\* is the position it will check and whether it is handleMouseMove's, which
\* clears hoverCheckScheduled
requestAnimationFrame(M, worldPos, fromMove) ==
  [M EXCEPT !.canvas.animationFrame = Append(@, [worldPos |-> worldPos, fromMove |-> fromMove])]

\* the callbacks of one frame, run in the order they were requested
RECURSIVE RunCallbacks(_, _, _, _)
RunCallbacks(M, callbacks, isTooltipPinned, isTooltipHovered) ==
  IF callbacks = <<>> THEN M
  ELSE LET checked == checkForPointHover(M, Head(callbacks).worldPos,
                                         isTooltipPinned, isTooltipHovered)
       IN RunCallbacks(IF Head(callbacks).fromMove
                       THEN [checked EXCEPT !.canvas.hoverCheckScheduled = FALSE]
                       ELSE checked,
                       Tail(callbacks), isTooltipPinned, isTooltipHovered)

\* A listener that awaits nothing has run: the machine is M, the selection
\* sel; operations in flight have no longer run alone
Handled(op, a, M, sel) ==
  /\ Commit(M, [u \in Tasks |-> IF Active(u) THEN [tasks[u] EXCEPT !.solo = FALSE]
                                ELSE tasks[u]])
  /\ selectedPoints' = sel
  /\ last' = Event(op, "return", a, CurD(Machine), "true", 0, NoQuery, TRUE,
                   \A v \in Tasks : ~Active(v), JustReturned)
  /\ UNCHANGED <<failures, ops>>

\* handleMouseMove
HandleMouseMove(worldPos, altKey) ==
  LET seen == [Machine EXCEPT !.canvas.lastMouseEvent = TRUE]
      mode == interactionState.mode
  IN Handled("handleMouseMove", NoArgs,
        IF canvas.hoverCheckScheduled THEN seen
        ELSE IF mode = "PANNING" THEN updatePanning(seen)
        ELSE IF mode = "SELECTING"
        THEN [seen EXCEPT !.interactionState = updateSelecting(@, worldPos)]
        ELSE IF mode = "DRAGGING" THEN updateDragging(seen, selectedPoints, worldPos, altKey)
        ELSE requestAnimationFrame([seen EXCEPT !.canvas.hoverCheckScheduled = TRUE],
                                   worldPos, TRUE),
        selectedPoints)

\* the browser runs the callbacks requested for the frame
AnimationFrame(isTooltipPinned, isTooltipHovered) ==
  /\ canvas.animationFrame # <<>>
  /\ Handled("animationFrame", [NoArgs EXCEPT !.pinned = isTooltipPinned],
             RunCallbacks([Machine EXCEPT !.canvas.animationFrame = <<>>],
                          canvas.animationFrame, isTooltipPinned, isTooltipHovered),
             selectedPoints)

\* handleMouseUp, for a button that is down. completeSelecting selects the
\* points inside the rectangle; endDragging puts the dragged points where the
\* pointer was released and calls updatePointPositions once with the movement
\* since the drag started, which handleMouseUp does not await
HandleMouseUp(t, worldPos) ==
  LET mode == interactionState.mode
      released == requestAnimationFrame(
                    [Machine EXCEPT !.canvas.held.button = FALSE,
                                    !.interactionState =
                                       IF mode = "PANNING" THEN endPanning(Machine).interactionState
                                       ELSE IF mode \in {"SELECTING", "DRAGGING"}
                                       THEN NoInteraction ELSE @],
                    worldPos, FALSE)
  IN
  /\ canvas.held.button
  /\ Len(canvas.animationFrame) <= MaxScheduled
  /\ IF mode = "DRAGGING"
     THEN /\ CallWithin(MaxMoves, t, "endDragging",
                        [NoArgs EXCEPT !.sel = selectedPoints,
                                       !.dx = worldPos.x - interactionState.start.x,
                                       !.dy = worldPos.y - interactionState.start.y],
                        updatePointPositions(
                          SetCurD(released,
                                  CurD(updateDragging(Machine, selectedPoints, worldPos,
                                                      interactionState.altKey))),
                          selectedPoints,
                          worldPos.x - interactionState.start.x,
                          worldPos.y - interactionState.start.y))
          /\ UNCHANGED <<selectedPoints, failures>>
     ELSE /\ t = 1
          /\ Handled("handleMouseUp", NoArgs, released,
                     IF mode = "SELECTING"
                     THEN PointsInRectangle(CurD(Machine), interactionState.start,
                                            interactionState.current)
                     ELSE selectedPoints)

\* handleWheel: the zoom is not part of this model; a hover check is requested
HandleWheel(worldPos) ==
  /\ Len(canvas.animationFrame) <= MaxScheduled
  /\ Handled("handleWheel", NoArgs,
             requestAnimationFrame(Machine, worldPos, FALSE), selectedPoints)

\* handleMouseLeave
HandleMouseLeave(isTooltipPinned, isTooltipHovered) ==
  Handled("handleMouseLeave", [NoArgs EXCEPT !.pinned = isTooltipPinned],
          IF ~isTooltipPinned /\ ~isTooltipHovered
          THEN [Machine EXCEPT !.canvas.tooltipPoint = 0, !.canvas.lastHoveredPoint = 0]
          ELSE Machine,
          selectedPoints)

\* handleKeyDown with e.key = ' ': the first press, or a key repeat while held
HandleKeyDownSpace ==
  /\ canvas.held.space \/ canvas.held.presses < MaxPresses
  /\ Handled("handleKeyDown", NoArgs,
             [togglePanMode(Machine, TRUE) EXCEPT
                !.canvas.held = IF canvas.held.space THEN @
                                ELSE [@ EXCEPT !.space = TRUE, !.presses = @ + 1,
                                               !.mode = interactionState.mode,
                                               !.clean = TRUE]],
             selectedPoints)

\* handleKeyUp with e.key = ' ', for a key that is down
HandleKeyUpSpace ==
  /\ canvas.held.space
  /\ Handled("handleKeyUp", NoArgs,
             [togglePanMode(Machine, FALSE) EXCEPT !.canvas.held.space = FALSE],
             selectedPoints)

\* the positions of the pointer: beside the first point, beside the second,
\* and away from all
PointerPositions ==
  {[x |-> CoordUnit * p + ClickOffset, y |-> CoordUnit * parentObject(p)] : p \in 1..2}
    \cup {[x |-> 0, y |-> 0]}

\* the positions of the pointer while modes are switched: it is pressed beside
\* the first point or away from all, and moved and released away from all
Away == [x |-> 0, y |-> 0]
PanPositions == {w \in PointerPositions : w.x <= CoordUnit + ClickOffset}

\* pointer buttons, pointer moves and the temporary-pan key; frames run while
\* no tooltip is pinned or hovered; the update a drag sends succeeds
NextPan ==
  \/ \E ctrlKey \in BOOLEAN, worldPos \in PanPositions :
       HandleMouseDown(ctrlKey, FALSE, worldPos, FALSE, TRUE)
  \/ HandleMouseMove(Away, FALSE)
  \/ \E t \in Tasks : HandleMouseUp(t, Away)
  \/ AnimationFrame(FALSE, FALSE)
  \/ HandleKeyDownSpace
  \/ HandleKeyUpSpace
  \/ \E t \in Tasks : UpdateSucceeds(t)

\* the events that ask for a hover check, the frames that run it, and the
\* pointer-downs without a modifier, which change the mode and the tooltip
NextHover ==
  \/ \E worldPos \in PointerPositions : HandleMouseDown(FALSE, FALSE, worldPos, FALSE, TRUE)
  \/ \E worldPos \in PointerPositions : HandleMouseMove(worldPos, FALSE)
  \/ \E worldPos \in PointerPositions, t \in Tasks : HandleMouseUp(t, worldPos)
  \/ \E worldPos \in PointerPositions : HandleWheel(worldPos)
  \/ \E isTooltipPinned \in BOOLEAN :
       \E isTooltipHovered \in (IF canvas.tooltipPoint # 0 THEN BOOLEAN ELSE {FALSE}) :
          \/ AnimationFrame(isTooltipPinned, isTooltipHovered)
          \/ HandleMouseLeave(isTooltipPinned, isTooltipHovered)

\* one diagram has been loaded: the two inner points are glued, the others too
InitModes ==
  /\ diagrams = [h \in 1..(2 * MaxTasks + 2) |->
                   IF h = 1 THEN fromSparqlResults([p \in Points |-> IF p \in {2, 3} THEN 1 ELSE 2])
                   ELSE NullDiagram]
  /\ diagramData = 1
  /\ uuid = MaxLoadedGlue + 1
  /\ status = ""
  /\ tasks = [t \in 1..MaxTasks |-> Idle]
  /\ selectedPoints = {}
  /\ selectedGluePoint = NoGlue
  /\ interactionState = NoInteraction
  /\ canvas = NoCanvas
  /\ failures = 0
  /\ ops = 0
  /\ last = Event("load", "return", NoArgs, NullDiagram, "true", 0, NoQuery, TRUE, TRUE, NoPrev)

SpecPan == InitModes /\ [][NextPan]_vars

SpecHover == InitModes /\ [][NextHover]_vars

\* ---------------------------------------------------------------- C22, C23

\* a pointer-up has been handled: the button that was down is up
PointerUpStep == canvas.held.button /\ ~canvas'.held.button

\* no pointer button and no temporary-pan key is down
NothingHeld == ~canvas.held.button /\ ~canvas.held.space

\* C22: a pointer-up received in RectSelecting, Dragging or Panning returns the
\* machine to Idle, and whenever the last pointer-up and the last release of the
\* temporary-pan key have been handled the machine is in Idle, not in
\* Dragging, RectSelecting or Panning
C22_EndsInIdle ==
  [][/\ PointerUpStep => interactionState'.mode = "NONE"
     /\ NothingHeld' => interactionState'.mode = "NONE"]_vars

\* the temporary-pan key goes down in a mode other than Panning; it is released
\* after only key repeats, pointer moves and pointer-ups arrived while it was held
KeyPressStep == ~canvas.held.space /\ canvas'.held.space /\ interactionState.mode # "PANNING"
KeyReleaseStep ==
  canvas.held.space /\ ~canvas'.held.space /\ canvas.held.clean /\ canvas.held.mode # "PANNING"

\* C23: pressing the temporary-pan key in mode M (Idle, RectSelecting or
\* Dragging) switches to Panning, and releasing it restores M, whatever key
\* repeats, pointer moves and pointer-ups arrive while the key is held
C23_TemporaryPanRestores ==
  [][/\ KeyPressStep => interactionState'.mode = "PANNING"
     /\ KeyReleaseStep => interactionState'.mode = canvas.held.mode]_vars

\* -------------------------------------------------------------------- C24

\* the browser runs the frame's callbacks; the tooltip or the last hovered
\* point is not what it was
FrameStep == canvas.animationFrame # <<>> /\ canvas'.animationFrame = <<>>
HoverChanged ==
  \/ canvas'.tooltipPoint # canvas.tooltipPoint
  \/ canvas'.lastHoveredPoint # canvas.lastHoveredPoint

\* C24: a hover evaluation changes the tooltip or the last hovered point only
\* if the mode is Idle and no tooltip is pinned, and at most one hover
\* evaluation is scheduled per animation frame, whichever of pointer-move,
\* pointer-up and wheel asked for it
C24_HoverThrottled ==
  [][/\ (FrameStep /\ HoverChanged) =>
          (interactionState.mode = "NONE" /\ ~last'.a.pinned)
     /\ Len(canvas'.animationFrame) <= 1]_vars

\* ------------------------------------------------------- C26: findPointNear

\* diagrams whose points lie close together: each point is at the first
\* position of the row or two click offsets to its right
HitDiagrams ==
  {[fromSparqlResults([p \in Points |-> IF p \in {2, 3} THEN 1 ELSE 2]) EXCEPT
      !.x = xs, !.y = [p \in Points |-> CoordUnit]] :
     xs \in [Points -> {CoordUnit, CoordUnit + 2 * ClickOffset}]}

\* the positions tried: away from all points, exactly the radius left of the
\* first position, half way between the two positions, and exactly the radius
\* right of the first position
HitPositions ==
  {[x |-> x, y |-> CoordUnit] :
     x \in {0, CoordUnit - SelectionRadius, CoordUnit + ClickOffset,
            CoordUnit + SelectionRadius}}

NextHit ==
  \E ctrlKey \in BOOLEAN, worldPos \in HitPositions :
     HandleMouseDown(ctrlKey, FALSE, worldPos, FALSE, FALSE)

InitHit ==
  \E D \in HitDiagrams :
    /\ diagrams = [h \in 1..(2 * MaxTasks + 2) |-> IF h = 1 THEN D ELSE NullDiagram]
    /\ diagramData = 1
    /\ uuid = MaxLoadedGlue + 1
    /\ status = ""
    /\ tasks = [t \in 1..MaxTasks |-> Idle]
    /\ selectedPoints = {}
    /\ selectedGluePoint = NoGlue
    /\ interactionState = NoInteraction
    /\ canvas = NoCanvas
    /\ failures = 0
    /\ ops = 0
    /\ last = Event("load", "return", NoArgs, NullDiagram, "true", 0, NoQuery, TRUE, TRUE, NoPrev)

SpecHit == InitHit /\ [][NextHit]_vars

\* the places in diagram.points of the points closer to the position than radius
WithinRadius(D, position, radius) ==
  {i \in 1..Len(D.points) : distanceSquaredTo(D, D.points[i], position) < radius * radius}

\* the pointer-down looked for the point under the pointer with findPointNear
HitTested == PointerDown /\ last.pre.points # <<>>

MirrorHorizontally(t) ==
  /\ CallWithin(MaxMirrors, t, "mirrorSelectedPointsHorizontally",
                [NoArgs EXCEPT !.sel = selectedPoints],
                mirrorSelectedPointsHorizontally(Machine, selectedPoints))
  /\ UNCHANGED <<selectedPoints, failures>>

MirrorVertically(t) ==
  /\ CallWithin(MaxMirrors, t, "mirrorSelectedPointsVertically",
                [NoArgs EXCEPT !.sel = selectedPoints],
                mirrorSelectedPointsVertically(Machine, selectedPoints))
  /\ UNCHANGED <<selectedPoints, failures>>

NextMirror ==
  \E t \in Tasks :
     \/ MirrorHorizontally(t)
     \/ MirrorVertically(t)
     \/ UpdateSucceeds(t)

\* the coordinates of the points that are mirrored: small ones, and one whose
\* sums need more bits than a significand has
MirrorCoords == {CoordUnit, 2 * CoordUnit, Pow2(SignificandBits) - CoordUnit \div 2}

\* a diagram with such coordinates has been loaded and points are selected
InitMirror ==
  \E xs \in [Points -> MirrorCoords], selected \in SUBSET Points :
    /\ diagrams = [h \in 1..(2 * MaxTasks + 2) |->
                     IF h = 1
                     THEN [fromSparqlResults([p \in Points |-> IF p \in {2, 3} THEN 1 ELSE 2])
                             EXCEPT !.x = xs, !.y = [p \in Points |-> xs[NPoints + 1 - p]]]
                     ELSE NullDiagram]
    /\ diagramData = 1
    /\ uuid = MaxLoadedGlue + 1
    /\ status = ""
    /\ tasks = [t \in 1..MaxTasks |-> Idle]
    /\ selectedPoints = selected
    /\ selectedGluePoint = NoGlue
    /\ interactionState = NoInteraction
    /\ canvas = NoCanvas
    /\ failures = 0
    /\ ops = 0
    /\ last = Event("load", "return", NoArgs, NullDiagram, "true", 0, NoQuery, TRUE, TRUE, NoPrev)

SpecMirror == InitMirror /\ [][NextMirror]_vars

MirrorOps == {"mirrorSelectedPointsHorizontally", "mirrorSelectedPointsVertically"}

\* the last operation is a mirroring of a selection that names points of the
\* diagram, no update of it has failed, and it has just made its change or no
\* other operation has run since it was called
MirroredOnce ==
  /\ last.op \in MirrorOps /\ SelectedBefore # <<>> /\ last.allOk
  /\ (last.phase = "call" \/ last.solo)

\* and the operation that returned just before it was the same mirroring of
\* the same selection
MirroredTwice == MirroredOnce /\ last.prev.op = last.op /\ last.prev.a.sel = last.a.sel

\* every selected point is where it was in diagram D
BackWhereItWas(D) == \A p \in last.a.sel : Cur.x[p] = D.x[p] /\ Cur.y[p] = D.y[p]

\* the selected points have the centroid they had in diagram D (the sums of
\* the coordinates are compared, which is the same for the same points)
SameCentroid(D) ==
  /\ SumCoord(Cur.x, SelectedBefore) = SumCoord(D.x, SelectedBefore)
  /\ SumCoord(Cur.y, SelectedBefore) = SumCoord(D.y, SelectedBefore)

\* C27 as stated: MirrorHorizontal applied twice returns every selected point
\* to its original coordinates, likewise MirrorVertical, and a single mirror
\* leaves the centroid of the selection unchanged
C27_MirrorTwiceIsIdentity ==
  /\ MirroredTwice => BackWhereItWas(last.prev.pre)
  /\ MirroredOnce => SameCentroid(last.pre)

Magnitude(v) == IF v < 0 THEN 0 - v ELSE v

\* nothing is rounded when the selected points of D are mirrored twice: their
\* mean is whole, and three times the sum of their magnitudes fits a significand
MirroredExactly(D) ==
  /\ CenterIsWhole(D, SelectedBefore)
  /\ \A p \in last.a.sel :
       /\ 3 * Len(SelectedBefore) * Magnitude(D.x[p]) < Pow2(SignificandBits)
       /\ 3 * Len(SelectedBefore) * Magnitude(D.y[p]) < Pow2(SignificandBits)

\* C27, amended: when the coordinates of the selected points are whole numbers
\* with a whole mean, small enough that no sum is rounded, mirroring twice
\* returns every selected point to its original coordinates and a single
\* mirror leaves the centroid of the selection unchanged
C27_ExactMirrorTwiceIsIdentity ==
  /\ (MirroredTwice /\ MirroredExactly(last.prev.pre)) => BackWhereItWas(last.prev.pre)
  /\ (MirroredOnce /\ MirroredExactly(last.pre)) => SameCentroid(last.pre)

\* two points at different places have been mirrored twice without rounding:
\* the first mirror moved them, the second has returned
C27_Witness ==
  /\ MirroredTwice /\ MirroredExactly(last.prev.pre) /\ last.phase = "return"
  /\ Len(SelectedBefore) >= 2
  /\ \E p \in last.a.sel : last.pre.x[p] # last.prev.pre.x[p]

\* ------------------------------------ C28: repositioning and the glue relation

\* the ways of repositioning points: Ctrl + arrow keys, dragging with the
\* pointer, the rotation and mirroring buttons; their updates succeed. The
\* pointer has one button, which selects points with Ctrl; one repositioning is
\* followed to its end
NextReposition ==
  \/ /\ ops < MaxMoves
     /\ ~canvas.held.button
     /\ \E ctrlKey \in BOOLEAN, worldPos \in PointerPositions :
          HandleMouseDown(ctrlKey, FALSE, worldPos, FALSE, TRUE)
  \/ HandleMouseMove(Away, FALSE)
  \/ AnimationFrame(FALSE, FALSE)
  \/ \E t \in Tasks :
       \/ HandleMouseUp(t, Away)
       \/ \E key \in ArrowKeys, modifier \in Modifiers : HandleObjectMovement(t, key, modifier)
       \/ \E degrees \in Rotations : RotateSelectedPoints(t, degrees)
       \/ MirrorSelectedPointsHorizontally(t)
       \/ MirrorSelectedPointsVertically(t)
       \/ UpdateSucceeds(t)

SpecReposition == InitModes /\ [][NextReposition]_vars

Repositionings ==
  {"handleObjectMovement", "endDragging", "rotateSelectedPoints",
   "mirrorSelectedPointsHorizontally", "mirrorSelectedPointsVertically"}

\* the last event belongs to a repositioning whose updates have not failed,
\* with nothing else run since it was called, or is a pointer-move
Repositioned ==
  \/ last.op \in Repositionings /\ last.allOk /\ (last.phase = "call" \/ last.solo)
  \/ last.op = "handleMouseMove"

\* C28: moving (by arrow keys or by dragging), rotating or mirroring points
\* never changes the glue relation: the glue points, the members of each and
\* the pointToGluePointMap index are what they were before
C28_RepositioningKeepsGlue ==
  Repositioned =>
    /\ Cur.gluePoints = last.pre.gluePoints
    /\ Cur.pointToGluePointMap = last.pre.pointToGluePointMap

\* a drag has ended and its update has succeeded: a glued point was dragged
\* away from the point it is glued to
C28_Witness ==
  /\ last.op = "endDragging" /\ last.phase = "return" /\ last.allOk /\ last.solo
  /\ \E p \in last.a.sel :
       /\ Cur.x[p] # last.pre.x[p]
       /\ DM_getGluedPoints(Cur, p) # {}
       /\ \E q \in DM_getGluedPoints(Cur, p) : q \notin last.a.sel

\* ------------------------------------- C29: DiagramModel.fromSparqlResults

\* Array.prototype.sort((a, b) => key[a] - key[b]): a stable sort, by insertion
RECURSIVE InsertByKey(_, _, _)
InsertByKey(sorted, item, key) ==
  IF sorted = <<>> THEN <<item>>
  ELSE IF key[item] < key[Head(sorted)] THEN <<item>> \o sorted
  ELSE <<Head(sorted)>> \o InsertByKey(Tail(sorted), item, key)

RECURSIVE sort(_, _)
sort(array, key) ==
  IF array = <<>> THEN <<>>
  ELSE InsertByKey(sort(SubSeq(array, 1, Len(array) - 1), key), array[Len(array)], key)

\* DiagramObjectModel.addPoint: push, then sort by sequence number (and a
\* variant that only pushes)
DiagramObjectModel_addPoint_PushOnly(points, point, sequenceNumber) == Append(points, point)
DiagramObjectModel_addPoint(points, point, sequenceNumber) ==
  sort(Append(points, point), sequenceNumber)

\* what the bindings say of point p and object o (the first binding that names it)
BindingOfPoint(bindings, p) ==
  bindings[CHOOSE i \in 1..Len(bindings) :
             bindings[i].point = p /\ \A j \in 1..(i - 1) : bindings[j].point # p]
BindingOfObject(bindings, o) ==
  bindings[CHOOSE i \in 1..Len(bindings) :
             bindings[i].diagramObject = o /\ \A j \in 1..(i - 1) : bindings[j].diagramObject # o]

\* "First pass: create objects": diagram.objects after the bindings from i on
RECURSIVE createObjects(_, _, _)
createObjects(bindings, i, objects) ==
  IF i > Len(bindings) THEN objects
  ELSE createObjects(bindings, i + 1,
         IF \E k \in 1..Len(objects) : objects[k] = bindings[i].diagramObject
         THEN objects ELSE Append(objects, bindings[i].diagramObject))

\* "Second pass: add points to objects": the points array of every object
\* after the bindings from i on
RECURSIVE addPointsToObjects(_, _, _, _)
addPointsToObjects(bindings, i, objectPoints, sequenceNumber) ==
  IF i > Len(bindings) THEN objectPoints
  ELSE addPointsToObjects(bindings, i + 1,
         [objectPoints EXCEPT ![bindings[i].diagramObject] =
            DiagramObjectModel_addPoint(@, bindings[i].point, sequenceNumber)],
         sequenceNumber)

\* "First pass: create glue point objects": the glue points in the order the
\* gluePointMap holds them, after the bindings from i on
RECURSIVE createGluePoints(_, _, _)
createGluePoints(bindings, i, glueIris) ==
  IF i > Len(bindings) THEN glueIris
  ELSE createGluePoints(bindings, i + 1,
         IF bindings[i].gluePoint = NoGlue
            \/ \E k \in 1..Len(glueIris) : glueIris[k] = bindings[i].gluePoint
         THEN glueIris ELSE Append(glueIris, bindings[i].gluePoint))

\* DiagramModel.addGluePoint for the glue points from k on: every connected
\* point is mapped to the glue point
RECURSIVE addGluePoints(_, _, _, _)
addGluePoints(glueIris, k, connectedPoints, map) ==
  IF k > Len(glueIris) THEN map
  ELSE addGluePoints(glueIris, k + 1, connectedPoints,
         [p \in (DOMAIN map) \cup connectedPoints[glueIris[k]] |->
            IF p \in connectedPoints[glueIris[k]] THEN glueIris[k] ELSE map[p]])

\* DiagramModel.fromSparqlResults on results.results.bindings. objectOrder is
\* diagram.objects, drawingOrder the drawingOrder of each object
fromSparqlBindings(bindings) ==
  LET rows == 1..Len(bindings)
      named == {bindings[i].point : i \in rows}
      sequenceNumber == [p \in Points |->
                           IF p \in named THEN BindingOfPoint(bindings, p).sequenceNumber ELSE 0]
      created == createObjects(bindings, 1, <<>>)
      createdSet == {created[k] : k \in 1..Len(created)}
      drawingOrder == [o \in Objects |->
                         IF o \in createdSet THEN BindingOfObject(bindings, o).drawingOrder ELSE 0]
      objectPoints == addPointsToObjects(bindings, 1, [o \in Objects |-> <<>>], sequenceNumber)
      glueIris == createGluePoints(bindings, 1, <<>>)
      connectedPoints ==
        [g \in {glueIris[k] : k \in 1..Len(glueIris)} |->
           {bindings[i].point : i \in {j \in rows : bindings[j].gluePoint = g}}]
  IN [gluePoints |-> connectedPoints,
      pointToGluePointMap |-> addGluePoints(glueIris, 1, connectedPoints, EmptyMap),
      x |-> [p \in Points |-> IF p \in named THEN BindingOfPoint(bindings, p).x ELSE 0],
      y |-> [p \in Points |-> IF p \in named THEN BindingOfPoint(bindings, p).y ELSE 0],
      objects |-> [o \in Objects |->
                     [points |-> objectPoints[o],
                      isPolygon |-> o \in createdSet /\ BindingOfObject(bindings, o).isPolygon]],
      points |-> [i \in rows |-> bindings[i].point],
      sequenceNumber |-> sequenceNumber,
      parent |-> [p \in Points |->
                    IF p \in named THEN BindingOfPoint(bindings, p).diagramObject ELSE 0],
      objectOrder |-> sort(created, drawingOrder),
      drawingOrder |-> drawingOrder]

\* the results of the diagram query: one row for every point, in any order;
\* the sequence numbers and drawing orders are any of MaxOrder + 1 values, and
\* a point names one glue point or none
BindingRows ==
  {[i \in 1..NPoints |->
      [diagramObject |-> parentObject(order[i]), drawingOrder |-> drawing[parentObject(order[i])],
       isPolygon |-> loadedIsPolygon(parentObject(order[i])),
       point |-> order[i], sequenceNumber |-> sequence[order[i]],
       x |-> CoordUnit * order[i], y |-> CoordUnit * parentObject(order[i]),
       gluePoint |-> IF glue[order[i]] = 0 THEN NoGlue ELSE glue[order[i]]]] :
     order \in Orders(Points), drawing \in [Objects -> 0..MaxOrder],
     sequence \in [Points -> 0..MaxOrder],
     glue \in {e \in [Points -> 0..MaxLoadedGlue] : AnyLoad(e)}}

\* the bindings have arrived
InitLoad ==
  \E bindings \in BindingRows :
    /\ diagrams = [h \in 1..(2 * MaxTasks + 2) |-> NullDiagram]
    /\ diagramData = 1
    /\ uuid = MaxLoadedGlue + 1
    /\ status = ""
    /\ tasks = [t \in 1..MaxTasks |-> Idle]
    /\ selectedPoints = {}
    /\ selectedGluePoint = NoGlue
    /\ interactionState = NoInteraction
    /\ canvas = NoCanvas
    /\ failures = 0
    /\ ops = 0
    /\ last = Event("fromSparqlResults", "call", [NoArgs EXCEPT !.pts = bindings], NullDiagram,
                    "pending", 0, NoQuery, TRUE, TRUE, NoPrev)

\* the diagram is built from them and set as the diagram shown
LoadDiagram ==
  /\ last.op = "fromSparqlResults" /\ last.phase = "call"
  /\ diagrams' = [diagrams EXCEPT ![diagramData] = fromSparqlBindings(last.a.pts)]
  /\ last' = [last EXCEPT !.phase = "return", !.res = "true"]
  /\ UNCHANGED <<diagramData, uuid, status, tasks, selectedPoints, selectedGluePoint,
                 interactionState, canvas, failures, ops>>

NextLoad == LoadDiagram

SpecLoad == InitLoad /\ [][NextLoad]_vars

\* a diagram has been built from bindings
Loaded == last.op = "fromSparqlResults" /\ last.phase = "return"

\* C29: the diagram fromSparqlResults builds from bindings in which every point
\* names at most one glue point has an index consistent with membership
\* (a point is mapped to a glue point exactly if it is one of its members),
\* every object's points in ascending sequenceNumber order, and the objects in
\* ascending drawingOrder
C29_LoadedDiagramIsOrdered ==
  Loaded =>
    /\ \A p \in Points, g \in DOMAIN Cur.gluePoints :
         (p \in DOMAIN Cur.pointToGluePointMap /\ Cur.pointToGluePointMap[p] = g)
           <=> p \in Cur.gluePoints[g]
    /\ \A p \in DOMAIN Cur.pointToGluePointMap :
         Cur.pointToGluePointMap[p] \in DOMAIN Cur.gluePoints
    /\ \A o \in Objects : \A i, j \in 1..Len(Cur.objects[o].points) :
         i < j => Cur.sequenceNumber[Cur.objects[o].points[i]]
                    <= Cur.sequenceNumber[Cur.objects[o].points[j]]
    /\ \A i, j \in 1..Len(Cur.objectOrder) :
         i < j => Cur.drawingOrder[Cur.objectOrder[i]] <= Cur.drawingOrder[Cur.objectOrder[j]]

\* the rows arrived with an object's later point first and the later-drawn
\* object first, and named a glue point; the diagram built holds every point
C29_Witness ==
  /\ Loaded
  /\ Cur.gluePoints # EmptyMap
  /\ Len(Cur.objectOrder) = NObjects
  /\ \E i, j \in 1..Len(last.a.pts) :
       /\ i < j
       /\ last.a.pts[i].diagramObject = last.a.pts[j].diagramObject
       /\ last.a.pts[i].sequenceNumber > last.a.pts[j].sequenceNumber
  /\ \E i, j \in 1..Len(last.a.pts) :
       /\ i < j
       /\ \A k \in 1..(i - 1) : last.a.pts[k].diagramObject # last.a.pts[j].diagramObject
       /\ last.a.pts[i].drawingOrder > last.a.pts[j].drawingOrder
  /\ \A o \in Objects : Len(Cur.objects[o].points) = Cardinality({p \in Points : parentObject(p) = o})

\* ------------------------------------------ C30: the index after a merge
\* C30: after mergeGluePoints(idA, idB) has returned true (toggleConnection of
\* a point of each of two distinct glue points, every update succeeding), for
\* every point p that was a member of idB, getGluePointForPoint(p) is idA and
\* getGluedPoints(p) is exactly the other members of idA.
C30_MergedPointsFindTheirGluePoint ==
  (ToggleDone /\ last.res = "true" /\ GlueA # NoGlue /\ GlueB # NoGlue /\ GlueA # GlueB) =>
    \A p \in last.pre.gluePoints[GlueB] :
      /\ DM_getGluePointForPoint(Cur, p) = GlueA
      /\ GlueA \in DOMAIN Cur.gluePoints
      /\ DM_getGluedPoints(Cur, p) = Cur.gluePoints[GlueA] \ {p}

\* --------------------------------------------- C31: the glue checkbox
\* shouldShowGlueCheckbox: at least two points are selected, of at least two objects
shouldShowGlueCheckbox(D, selected) ==
  /\ Cardinality(selected) >= 2
  /\ Cardinality({D.parent[p] : p \in {q \in selected : \E i \in 1..Len(D.points) : D.points[i] = q}}) >= 2

\* isGlueChecked: every selected point has an index entry, all the same
isGlueChecked(D, selected) ==
  /\ Cardinality(selected) >= 2
  /\ \A p \in selected : p \in DOMAIN D.pointToGluePointMap
  /\ \A p, q \in selected : D.pointToGluePointMap[p] = D.pointToGluePointMap[q]

\* handleChange of the glue checkbox: the checkbox is shown, the operator
\* changes it from what isGlueChecked shows; checking it creates a glue point
\* from the selected points, unchecking it removes the glue point of the
\* first selected point
GlueCheckboxChange(t) ==
  /\ shouldShowGlueCheckbox(CurD(Machine), selectedPoints)
  /\ \E selected \in Orders(selectedPoints) :
       IF ~isGlueChecked(CurD(Machine), selectedPoints)
       THEN Call(t, "createGluePointFromSelectedPoints",
                 [NoArgs EXCEPT !.pts = selected, !.sel = selectedPoints],
                 V_createGluePointFromSelectedPoints(Machine, selected))
       ELSE Call(t, "removeGluePoint",
                 Args(<<>>, 0, CurD(Machine).pointToGluePointMap[selected[1]]),
                 removeGluePoint(Machine, CurD(Machine).pointToGluePointMap[selected[1]]))
  /\ UNCHANGED <<selectedPoints, failures>>

\* points are selected and the glue checkbox is used
NextCheckbox ==
  \/ \E p \in Points : TogglePointSelection(p)
  \/ \E t \in Tasks :
       \/ GlueCheckboxChange(t)
       \/ UpdateSucceeds(t)

SpecCheckbox == Init /\ [][NextCheckbox]_vars

\* the checkbox has just called createGluePoint with the selected points
CreatedFromSelection ==
  /\ last.op = "createGluePointFromSelectedPoints"
  /\ last.phase = "call"

\* C31: every call path that reaches createGluePoint passes only points that
\* belong to no glue point: when the glue checkbox has created a glue point
\* from the selected points, none of them had an index entry or was listed in
\* a glue point before, and afterwards no point is listed in a glue point
\* other than the one the index names.
C31_CreateOnlyFromUngluedPoints ==
  CreatedFromSelection =>
    /\ \A p \in last.a.sel :
         /\ p \notin DOMAIN last.pre.pointToGluePointMap
         /\ \A g \in DOMAIN last.pre.gluePoints : p \notin last.pre.gluePoints[g]
    /\ \A g \in DOMAIN Cur.gluePoints : \A p \in Cur.gluePoints[g] :
         p \in DOMAIN Cur.pointToGluePointMap /\ Cur.pointToGluePointMap[p] = g

\* ------------------------------- C32: add candidates of the selected glue point
\* getGluePointsForVisualization: the glue points with at least two connected
\* points the diagram holds
getGluePointsForVisualization(D) ==
  {g \in DOMAIN D.gluePoints : Cardinality(D.gluePoints[g] \cap SeqSet(D.points)) >= 2}

\* calculateCandidatePoints: the points near the cursor that are not in the
\* selected glue point, not of an object that has a point in it, and without
\* an index entry
calculateCandidatePoints(D, selected, near) ==
  IF selected = NoGlue \/ selected \notin getGluePointsForVisualization(D) THEN {}
  ELSE LET pointsInGluePoint == D.gluePoints[selected]
           objectsInGluePoint == {D.parent[p] : p \in pointsInGluePoint \cap SeqSet(D.points)}
       IN {p \in SeqSet(D.points) \cap near :
             /\ p \notin pointsInGluePoint
             /\ D.parent[p] \notin objectsInGluePoint
             /\ p \notin DOMAIN D.pointToGluePointMap}

\* the debounce timer of handleMouseMove or the timer of a glue point click
\* fires, or the wheel turns: the candidates are calculated; near are the
\* points within ADD_BUTTON_RADIUS of the cursor
CalculateCandidatePoints(near) ==
  /\ canvas' = [canvas EXCEPT !.candidatePoints =
                  calculateCandidatePoints(CurD(Machine), selectedGluePoint, near)]
  /\ canvas' # canvas
  /\ UNCHANGED <<diagrams, diagramData, uuid, status, tasks, selectedPoints, selectedGluePoint,
                 interactionState, failures, ops, last>>

\* handleGluePointClick on the marker of gluePointIri: the selected glue point
\* is deselected and the candidates are cleared; another one is selected with
\* its connected points (selectConnectedPoints), the candidates are calculated
\* when the timer fires
HandleGluePointClick(gluePointIri) ==
  /\ gluePointIri \in getGluePointsForVisualization(CurD(Machine))
  /\ IF selectedGluePoint = gluePointIri
     THEN /\ selectedGluePoint' = NoGlue
          /\ canvas' = [canvas EXCEPT !.candidatePoints = {}]
          /\ UNCHANGED selectedPoints
     ELSE /\ selectedGluePoint' = gluePointIri
          /\ selectedPoints' = CurD(Machine).gluePoints[gluePointIri]
          /\ UNCHANGED canvas
  /\ UNCHANGED <<diagrams, diagramData, uuid, status, tasks, interactionState, failures, ops, last>>

\* handleAddPoint: the "+" button of a candidate is clicked while a glue point
\* is selected
HandleAddPoint(t, pointIri) ==
  /\ selectedGluePoint # NoGlue
  /\ pointIri \in canvas.candidatePoints
  /\ Call(t, "addPointToGluePoint", Args(<<>>, pointIri, selectedGluePoint),
          V_addPointToGluePoint(Machine, pointIri, selectedGluePoint))
  /\ UNCHANGED <<selectedPoints, failures>>

\* glue points are shown: one is selected, candidates are offered and added
NextCandidates ==
  \/ \E near \in SUBSET Points : CalculateCandidatePoints(near)
  \/ \E g \in GlueIris : HandleGluePointClick(g)
  \/ \E t \in Tasks :
       \/ \E p \in Points : HandleAddPoint(t, p)
       \/ UpdateSucceeds(t)

SpecCandidates == InitAny /\ [][NextCandidates]_vars

\* the candidates that have a "+" button
Offered == IF selectedGluePoint = NoGlue THEN {} ELSE canvas.candidatePoints

\* C32: every point offered as an add candidate for the selected glue point g
\* is not a member of g, has no index entry and is of an object none of whose
\* points is a member of g; and addPointToGluePoint of a candidate to g
\* succeeds and leaves g valid and the index consistent with g's members.
C32_CandidatesCanBeAdded ==
  /\ \A c \in Offered :
       /\ selectedGluePoint \in DOMAIN Cur.gluePoints
       /\ c \notin Cur.gluePoints[selectedGluePoint]
       /\ c \notin DOMAIN Cur.pointToGluePointMap
       /\ \A p \in Cur.gluePoints[selectedGluePoint] : Cur.parent[p] # Cur.parent[c]
  /\ last.op = "addPointToGluePoint" =>
       /\ last.res # "false"
       /\ last.a.g \in DOMAIN Cur.gluePoints
       /\ GluePointValid(Cur, last.a.g)
       /\ \A p \in Cur.gluePoints[last.a.g] :
            p \in DOMAIN Cur.pointToGluePointMap /\ Cur.pointToGluePointMap[p] = last.a.g

\* ----------------------------------- C33: glue points name existing points
\* the points diagram D holds, in its flattened list or in an object's list
PointsOf(D) ==
  SeqSet(D.points) \cup UNION {SeqSet(D.objects[o].points) : o \in DOMAIN D.objects}

\* C33: in every reachable state, every point of a glue point's member set and
\* every key of pointToGluePointMap is a point the diagram still holds: a
\* deleted point is taken out of its glue point and out of the index.
C33_GluePointsNameExistingPoints ==
  /\ \A g \in DOMAIN Cur.gluePoints : Cur.gluePoints[g] \subseteq PointsOf(Cur)
  /\ DOMAIN Cur.pointToGluePointMap \subseteq PointsOf(Cur)

\* ------------------------------ C34: a deletion removes only its own point
\* C34: deletePointFromLine(p) never removes a point other than p from p's
\* parent object, whatever else is in flight: when it has run to its first
\* await, every other point the object held when it was called is still in
\* the object's list.
C34_DeletionRemovesOnlyItsPoint ==
  (last.op = "deletePointFromLine" /\ last.phase = "call") =>
    SeqSet(last.pre.objects[last.a.obj].points) \ {last.a.p}
      \subseteq SeqSet(Cur.objects[last.a.obj].points)

\* ------------------------- C35: the flattened list and the objects' lists
\* the points in the point lists of the objects of D
ObjectPointsOf(D) == UNION {SeqSet(D.objects[o].points) : o \in DOMAIN D.objects}

\* C35: in every state observable between events, also while an insertion or
\* deletion awaits its update, the diagram's flattened point list holds exactly
\* the points of the point lists of its objects, each in the list of its
\* parent object.
C35_FlattenedListMatchesObjects ==
  /\ SeqSet(Cur.points) = ObjectPointsOf(Cur)
  /\ \A p \in SeqSet(Cur.points) : p \in SeqSet(Cur.objects[Cur.parent[p]].points)

\* ------------------- C36: the points moved locally and the points persisted
\* the points of diagram D that are where they were in pre plus (dx, dy)
MovedBy(pre, D, dx, dy) ==
  {p \in Points : D.x[p] = pre.x[p] + dx /\ D.y[p] = pre.y[p] + dy}

\* the arrow-key move of task t returns true with this step, nothing else
\* having run since it was called
MoveSucceeds(t) ==
  /\ Active(t)
  /\ tasks[t].op = "handleObjectMovement"
  /\ tasks[t].solo
  /\ Top(t).pc = "update"
  /\ tasks'[t].stack = <<>>
  /\ last'.op = "handleObjectMovement" /\ last'.phase = "return" /\ last'.res = "true"

\* C36: when the update of an arrow-key move by (dx, dy) has succeeded, the
\* points that were moved by (dx, dy) in the diagram the store holds are
\* exactly the points the update was sent for.
C36_LocalMoveMatchesUpdate ==
  [][\A t \in Tasks :
       MoveSucceeds(t) =>
         MovedBy(tasks[t].pre, diagrams'[diagramData'], tasks[t].a.dx, tasks[t].a.dy)
           = Top(t).q.pts]_vars

\* -------------------------------- C37: a transformation whose update failed
\* C37: when the update of rotateSelectedPoints,
\* mirrorSelectedPointsHorizontally or mirrorSelectedPointsVertically has
\* failed, the operation returns false and the status it leaves is the error
\* report, not a success message.
C37_FailedTransformReportsError ==
  (last.op \in Transforms /\ last.phase = "return" /\ ~last.allOk) =>
    /\ last.res = "false"
    /\ status = "Error: update failed"

\* ------------------------------------- C38: a merge whose update fails
\* C38: when toggleConnection merged two distinct glue points (idA of its
\* first point, idB of its second), no other operation ran meanwhile and an
\* update of one of its steps failed, the merge reports failure.
C38_FailedMergeReportsFailure ==
  ( /\ last.op = "toggleConnection" /\ last.phase = "return"
    /\ Len(last.a.pts) = 2 /\ last.solo /\ ~last.allOk
    /\ GlueA # NoGlue /\ GlueB # NoGlue /\ GlueA # GlueB ) =>
    last.res = "false"

\* ------------------------------------------------ C39: the Delete key
\* handleKeyDown, key Delete: nothing when a glue point is selected (the
\* visualizer has its own handler); when a selected point has an index entry,
\* handleDeleteKeyOnGluePoint is called and not awaited. The regular deletion
\* of the selected objects (no selected point glued) is ObjectService's.
HandleDeleteKey(t, confirmDelete) ==
  /\ selectedGluePoint = NoGlue
  /\ \E p \in selectedPoints : p \in DOMAIN CurD(Machine).pointToGluePointMap
  /\ \E gluePointIris \in Orders(GluePointIrisOf(CurD(Machine), selectedPoints)) :
       Call(t, "handleDeleteKeyOnGluePoint",
            [NoArgs EXCEPT !.pts = gluePointIris, !.sel = selectedPoints,
                           !.confirmDelete = confirmDelete],
            V_handleDeleteKeyOnGluePoint(Machine, selectedPoints, gluePointIris, confirmDelete))
  /\ UNCHANGED <<selectedPoints, failures>>

\* points are selected, glue points are clicked, and Delete is pressed
NextDeleteKey ==
  \/ \E p \in Points : TogglePointSelection(p)
  \/ \E g \in GlueIris : HandleGluePointClick(g)
  \/ \E t \in Tasks :
       \/ \E confirmDelete \in BOOLEAN : HandleDeleteKey(t, confirmDelete)
       \/ UpdateSucceeds(t)
       \/ UpdateFails(t)
       \/ ReloadCompletes(t)

SpecDeleteKey == Init /\ [][NextDeleteKey]_vars

\* the glue points the Delete key was pressed on
DeleteTargets == SeqSet(last.a.pts)

\* a step of the Delete key's operation: its call or the code after an await
DeleteKeyStep ==
  /\ ops' # ops \/ tasks' # tasks
  /\ last'.op = "handleDeleteKeyOnGluePoint"

\* C39: pressing Delete while no glue point is selected and a selected point
\* has an index entry deletes no object or point and leaves the selection as
\* it is. When the user declines, the call returns false at once with no
\* update issued and the diagram and the index as they were. When the user
\* confirms, every update succeeds and no other operation runs meanwhile,
\* then on return exactly the glue points the index named for the selected
\* points are gone, with the index entries of their points, and every other
\* glue point and index entry is as it was.
C39_DeleteKeyRemovesOnlyGluePoints ==
  [][(DeleteKeyStep /\ last'.solo /\ last'.allOk) =>
       /\ Cur'.points = last'.pre.points
       /\ Cur'.objects = last'.pre.objects
       /\ selectedPoints' = selectedPoints
       /\ ~last'.a.confirmDelete =>
            /\ last'.phase = "return" /\ last'.res = "false"
            /\ last'.issued = 0
            /\ Cur' = Cur
       /\ (last'.a.confirmDelete /\ last'.phase = "return") =>
            /\ last'.res = "true"
            /\ DOMAIN Cur'.gluePoints = (DOMAIN last'.pre.gluePoints) \ SeqSet(last'.a.pts)
            /\ \A g \in DOMAIN Cur'.gluePoints : Cur'.gluePoints[g] = last'.pre.gluePoints[g]
            /\ Cur'.pointToGluePointMap =
                 Restrict(last'.pre.pointToGluePointMap,
                          {p \in DOMAIN last'.pre.pointToGluePointMap :
                             last'.pre.pointToGluePointMap[p] \notin SeqSet(last'.a.pts)})]_vars

\* C39 witness: Delete was confirmed with points of two glue points selected,
\* and both glue points have been removed
C39_Witness ==
  /\ last.op = "handleDeleteKeyOnGluePoint" /\ last.phase = "return"
  /\ last.solo /\ last.allOk /\ last.a.confirmDelete
  /\ Cardinality(DeleteTargets) = 2
  /\ Cur.gluePoints = EmptyMap
  /\ selectedPoints = last.a.sel

====
